---- MODULE Spec2Model ----
(***************************************************************************)
(* A model of the package-acquisition core of zap-pm:                      *)
(*   - internal/registry: version resolution (resolveVersion,              *)
(*     isExactVersion) over the strings the code handles;                  *)
(*   - internal/downloader: DownloadPackage, checkCache, downloadFile on a *)
(*     file system of paths and inodes, and DownloadDependencies with its  *)
(*     goroutines, semaphore and channels, and the ProgressBar counter;    *)
(*   - internal/parser: Validate and WriteToFile of a PackageJSON.         *)
(* Strings are sequences of one-character strings, so that trimming,       *)
(* prefix tests, parsing and formatting are computed, not assumed.         *)
(***************************************************************************)
EXTENDS Integers, Sequences, FiniteSets, TLC

VARIABLES
    \* ---- version resolution (one resolveVersion call)
    rConstraint,   \* the versionConstraint argument
    rRegistry,     \* what the registry answers for the package
    rpc,           \* position of the call
    rFetches,      \* GetPackageMetadata calls issued by the call
    rResult,       \* what the call returned
    \* ---- the cache directory and the DownloadPackage calls on it
    fs,            \* path -> inode number, 0 when no file is at the path
    inode,         \* inode number -> the bytes of the file
    pc,            \* caller -> where its DownloadPackage call stands
    loc,           \* caller -> the arguments and locals of its call
    hist,          \* the calls that returned, oldest first (a window)
    tampered,      \* paths whose valid archive was overwritten from outside
                   \* since the last call for them began
    \* ---- one DownloadDependencies call
    dDeps,         \* the names in versionInfo.Dependencies
    dConcurrency,  \* opts.Concurrency as passed
    mpc,           \* where the calling goroutine stands
    tpc,           \* dependency -> where its goroutine stands
    cpc,           \* where the goroutine that waits and closes stands
    sem,           \* elements in the semaphore channel
    wg,            \* the WaitGroup's counter
    resultsChan,   \* [buf, closed]
    errorsChan,    \* [buf, closed]
    results,       \* collected so far
    downloadErrors,\* collected so far
    outcome,       \* dependency -> what its DownloadPackage call returned
    dRet,          \* what DownloadDependencies returned
    \* ---- one GetPackageMetadata call and the requests fetchWithRetry makes
    fMaxRetries,   \* c.retryConfig.MaxRetries
    fMaxWaitTime,  \* c.retryConfig.MaxWaitTime, in units of RetryDelay
    fpc,           \* where the call stands
    fAttempt,      \* the loop variable attempt
    fLastErr,      \* lastErr
    fRequests,     \* the responses to the requests issued so far, in order
    fWaits,        \* the multiples of RetryDelay slept so far, in order
    fRet,          \* what GetPackageMetadata returned
    \* ---- one GetPackageVersion or GetLatestVersion call
    lOp,           \* which of the two was called
    lArg,          \* the versionConstraint argument
    lpc,           \* where the call stands
    lMeta,         \* what the registry publishes for the package now
    lChanged,      \* the registry changed what it publishes during the call
    lLog,          \* the GetPackageMetadata calls made: [ok, requests] each
    lVersion,      \* the version resolveVersion returned
    lRet,          \* what the call returned
    \* ---- one ProgressBar and the goroutines that use it
    bCurrent,      \* p.current
    bLeft,         \* goroutine -> Add calls it has still to make
    bSum,          \* the sum of the n of the Add calls that returned
    bRead,         \* what the last Current() call returned, and whether it
                   \* was made after every goroutine had finished
    \* ---- one PackageJSON and the file WriteToFile is asked to write
    wPkg,          \* the PackageJSON: [Name, Version, Dependencies]
    wFile,         \* what is at the target path
    wRet,          \* what WriteToFile returned
    \* ---- the transfers of one DownloadManager and their progress bars
    showProgress,  \* opts.ShowProgress of the calls
    progressBar,   \* dm.progressBar: the bar last stored, 0 for nil
    pbar,          \* transfer -> the ProgressBar it created, and that bar's
                   \* refresher goroutine
    xpc,           \* transfer -> where its downloadFile stands
    xReader,       \* transfer -> the bar its ProgressReader holds, 0 for none
    xLeft,         \* transfer -> chunks of the body not read yet
    xWritten       \* transfer -> bytes its io.Copy has read

resVars == <<rConstraint, rRegistry, rpc, rFetches, rResult>>

dlVars == <<fs, inode, pc, loc, hist, tampered>>

depVars == <<dDeps, dConcurrency, mpc, tpc, cpc, sem, wg, resultsChan, errorsChan,
             results, downloadErrors, outcome, dRet>>

fetchVars == <<fMaxRetries, fMaxWaitTime, fpc, fAttempt, fLastErr, fRequests, fWaits, fRet>>

lookupVars == <<lOp, lArg, lpc, lMeta, lChanged, lLog, lVersion, lRet>>

progVars == <<bCurrent, bLeft, bSum, bRead>>

manVars == <<wPkg, wFile, wRet>>

barVars == <<showProgress, progressBar, pbar, xpc, xReader, xLeft, xWritten>>

vars == <<resVars, dlVars, depVars, fetchVars, lookupVars, progVars, manVars, barVars>>

(***************************************************************************)
(* Strings                                                                 *)
(***************************************************************************)

\* The characters of the model in ASCII order (Go compares strings bytewise).
Alphabet == <<" ", "*", "+", "-", ".", "0", "1", "2", "3", "4", "5", "6", "7",
              "8", "9", "<", "=", ">", "X", "^", "a", "b", "d", "e", "l", "s",
              "t", "v", "x", "~">>

Ord(c) == CHOOSE i \in 1..Len(Alphabet) : Alphabet[i] = c

Digits == <<"0", "1", "2", "3", "4", "5", "6", "7", "8", "9">>

IsDigit(c) == \E i \in 1..Len(Digits) : Digits[i] = c

DigitVal(c) == (CHOOSE i \in 1..Len(Digits) : Digits[i] = c) - 1

IsLetter(c) == c \in {"X", "a", "b", "d", "e", "l", "s", "t", "v", "x"}

IsSpace(c) == c = " "

Drop(s, n) == SubSeq(s, n + 1, Len(s))

Take(s, n) == SubSeq(s, 1, n)

\* strings.HasPrefix
HasPrefix(s, p) == Len(s) >= Len(p) /\ Take(s, Len(p)) = p

RECURSIVE TrimLeft(_)
TrimLeft(s) == IF s # <<>> /\ IsSpace(Head(s)) THEN TrimLeft(Tail(s)) ELSE s

RECURSIVE TrimRight(_)
TrimRight(s) ==
    IF s # <<>> /\ IsSpace(s[Len(s)]) THEN TrimRight(Take(s, Len(s) - 1)) ELSE s

\* strings.TrimSpace
TrimSpace(s) == TrimRight(TrimLeft(s))

\* Index of the first character of s that is in cs, 0 when there is none.
IndexAny(s, cs) ==
    IF \E i \in 1..Len(s) : s[i] \in cs
    THEN CHOOSE i \in 1..Len(s) : s[i] \in cs /\ \A j \in 1..(i - 1) : s[j] \notin cs
    ELSE 0

\* strings.Split(s, sep) for a one-character separator.
RECURSIVE Split(_, _)
Split(s, sep) ==
    LET i == IndexAny(s, {sep})
    IN  IF i = 0 THEN <<s>> ELSE <<Take(s, i - 1)>> \o Split(Drop(s, i), sep)

AllDigits(s) == s # <<>> /\ \A i \in 1..Len(s) : IsDigit(s[i])

\* strconv.ParseUint(s, 10, 64) on a string of digits.
RECURSIVE ParseUint(_)
ParseUint(ds) ==
    IF ds = <<>> THEN 0
    ELSE ParseUint(Take(ds, Len(ds) - 1)) * 10 + DigitVal(ds[Len(ds)])

\* The decimal digits of n (fmt's %d).
RECURSIVE FormatUint(_)
FormatUint(n) ==
    IF n < 10 THEN <<Digits[n + 1]>>
    ELSE FormatUint(n \div 10) \o <<Digits[(n % 10) + 1]>>

\* Bytewise string order: -1, 0 or 1.
RECURSIVE StrCompare(_, _)
StrCompare(a, b) ==
    IF a = <<>> /\ b = <<>> THEN 0
    ELSE IF a = <<>> THEN -1
    ELSE IF b = <<>> THEN 1
    ELSE IF Ord(Head(a)) < Ord(Head(b)) THEN -1
    ELSE IF Ord(Head(a)) > Ord(Head(b)) THEN 1
    ELSE StrCompare(Tail(a), Tail(b))

(***************************************************************************)
(* semver.NewVersion, Version.String, Version.Compare                      *)
(* (github.com/Masterminds/semver/v3, as resolveVersion uses them)         *)
(***************************************************************************)

IsIdentChar(c) == IsDigit(c) \/ IsLetter(c) \/ c = "-"

\* [0-9A-Za-z\-]+(\.[0-9A-Za-z\-]+)*
ValidIdents(s) ==
    LET segs == Split(s, ".")
    IN  \A i \in 1..Len(segs) :
            /\ segs[i] # <<>>
            /\ \A j \in 1..Len(segs[i]) : IsIdentChar(segs[i][j])

NoVersion == [ok |-> FALSE, major |-> 0, minor |-> 0, patch |-> 0,
              pre |-> <<>>, metadata |-> <<>>, original |-> <<>>]

\* The tail of a version after its numbers: (-pre)?(+metadata)?
\* [ok, pre, metadata]
ParseTail(rest) ==
    IF rest = <<>> THEN [ok |-> TRUE, pre |-> <<>>, metadata |-> <<>>]
    ELSE IF Head(rest) = "+"
    THEN [ok |-> ValidIdents(Tail(rest)), pre |-> <<>>, metadata |-> Tail(rest)]
    ELSE IF Head(rest) = "-"
    THEN LET pm   == Tail(rest)
             plus == IndexAny(pm, {"+"})
             pre  == IF plus = 0 THEN pm ELSE Take(pm, plus - 1)
             meta == IF plus = 0 THEN <<>> ELSE Drop(pm, plus)
         IN  [ok |-> ValidIdents(pre) /\ (plus = 0 \/ ValidIdents(meta)),
              pre |-> pre, metadata |-> meta]
    ELSE [ok |-> FALSE, pre |-> <<>>, metadata |-> <<>>]

\* semver.NewVersion: v?N(.N)?(.N)?(-pre)?(+metadata)?, missing numbers are 0.
NewVersion(s) ==
    LET body == IF HasPrefix(s, <<"v">>) THEN Tail(s) ELSE s
        cut  == IndexAny(body, {"-", "+"})
        num  == IF cut = 0 THEN body ELSE Take(body, cut - 1)
        rest == IF cut = 0 THEN <<>> ELSE Drop(body, cut - 1)
        segs == Split(num, ".")
        tail == ParseTail(rest)
    IN  IF /\ Len(segs) <= 3
           /\ \A i \in 1..Len(segs) : AllDigits(segs[i])
           /\ tail.ok
        THEN [ok |-> TRUE,
              major |-> ParseUint(segs[1]),
              minor |-> IF Len(segs) >= 2 THEN ParseUint(segs[2]) ELSE 0,
              patch |-> IF Len(segs) >= 3 THEN ParseUint(segs[3]) ELSE 0,
              pre |-> tail.pre, metadata |-> tail.metadata, original |-> s]
        ELSE NoVersion

\* Version.String: the normalised form, not the original text.
String(v) ==
    FormatUint(v.major) \o <<".">> \o FormatUint(v.minor) \o <<".">>
        \o FormatUint(v.patch)
        \o (IF v.pre # <<>> THEN <<"-">> \o v.pre ELSE <<>>)
        \o (IF v.metadata # <<>> THEN <<"+">> \o v.metadata ELSE <<>>)

IntCompare(a, b) == IF a < b THEN -1 ELSE IF a > b THEN 1 ELSE 0

\* comparePrePart: numeric identifiers are lower than alphanumeric ones.
ComparePrePart(s, o) ==
    IF s = o THEN 0
    ELSE IF s = <<>> THEN -1
    ELSE IF o = <<>> THEN 1
    ELSE IF AllDigits(s) /\ AllDigits(o) THEN IntCompare(ParseUint(s), ParseUint(o))
    ELSE IF AllDigits(s) THEN -1
    ELSE IF AllDigits(o) THEN 1
    ELSE StrCompare(s, o)

RECURSIVE ComparePreSegs(_, _)
ComparePreSegs(a, b) ==
    IF a = <<>> /\ b = <<>> THEN 0
    ELSE LET x == IF a = <<>> THEN <<>> ELSE Head(a)
             y == IF b = <<>> THEN <<>> ELSE Head(b)
             d == ComparePrePart(x, y)
         IN  IF d # 0 THEN d
             ELSE ComparePreSegs(IF a = <<>> THEN <<>> ELSE Tail(a),
                                 IF b = <<>> THEN <<>> ELSE Tail(b))

\* Version.Compare: metadata is ignored; a release is above its prereleases.
Compare(v, o) ==
    IF v.major # o.major THEN IntCompare(v.major, o.major)
    ELSE IF v.minor # o.minor THEN IntCompare(v.minor, o.minor)
    ELSE IF v.patch # o.patch THEN IntCompare(v.patch, o.patch)
    ELSE IF v.pre = <<>> /\ o.pre = <<>> THEN 0
    ELSE IF v.pre = <<>> THEN 1
    ELSE IF o.pre = <<>> THEN -1
    ELSE ComparePreSegs(Split(v.pre, "."), Split(o.pre, "."))

LessThan(v, o) == Compare(v, o) < 0

(***************************************************************************)
(* semver.NewConstraint and Constraints.Check for a single comparator:     *)
(* an operator among = > < >= => <= =< ~ ~> ^ (or none) and a version whose *)
(* numbers may be wildcards (x, X or a star) or missing.  Comma- and       *)
(* ||-joined comparators, hyphen ranges and != are outside the strings     *)
(* modelled.                                                               *)
(***************************************************************************)

ConstraintOps ==
    {<<>>, <<"=">>, <<">">>, <<"<">>, <<">", "=">>, <<"=", ">">>,
     <<"<", "=">>, <<"=", "<">>, <<"~">>, <<"~", ">">>, <<"^">>}

IsX(seg) == seg \in {<<"x">>, <<"X">>, <<"*">>}

IsCVChar(c) == IsDigit(c) \/ c \in {"x", "X", "*"}

NoConstraint == [ok |-> FALSE, op |-> <<>>, con |-> NoVersion, dirty |-> FALSE,
                 minorDirty |-> FALSE, patchDirty |-> FALSE]

\* parseConstraint: the comparator's version, with a wildcard or missing
\* number (and all after it) read as 0 and the comparator marked dirty.
ParseConstraintVersion(op, s) ==
    LET body == IF HasPrefix(s, <<"v">>) THEN Tail(s) ELSE s
        cut  == IndexAny(body, {"-", "+"})
        num  == IF cut = 0 THEN body ELSE Take(body, cut - 1)
        rest == IF cut = 0 THEN <<>> ELSE Drop(body, cut - 1)
        segs == Split(num, ".")
        wellFormed ==
            /\ Len(segs) <= 3
            /\ \A i \in 1..Len(segs) :
                   segs[i] # <<>> /\ \A j \in 1..Len(segs[i]) : IsCVChar(segs[i][j])
            /\ ParseTail(rest).ok
        m3 == segs[1]
        m4 == IF Len(segs) >= 2 THEN segs[2] ELSE <<>>
        m5 == IF Len(segs) >= 3 THEN segs[3] ELSE <<>>
        allDirty   == IsX(m3)
        minorDirty == ~allDirty /\ (IsX(m4) \/ m4 = <<>>)
        patchDirty == ~allDirty /\ ~minorDirty /\ (IsX(m5) \/ m5 = <<>>)
        ver == IF allDirty THEN <<"0", ".", "0", ".", "0">> \o rest
               ELSE IF minorDirty THEN m3 \o <<".", "0", ".", "0">> \o rest
               ELSE IF patchDirty THEN m3 \o <<".">> \o m4 \o <<".", "0">> \o rest
               ELSE body
        con == NewVersion(ver)
    IN  IF wellFormed /\ con.ok
        THEN [ok |-> TRUE, op |-> op, con |-> con,
              dirty |-> allDirty \/ minorDirty \/ patchDirty,
              minorDirty |-> minorDirty, patchDirty |-> patchDirty]
        ELSE NoConstraint

\* semver.NewConstraint: \s*(op)\s*(version)\s*
NewConstraint(s) ==
    LET t    == TrimSpace(s)
        fits == {op \in ConstraintOps :
                    HasPrefix(t, op)
                    /\ ParseConstraintVersion(op, TrimLeft(Drop(t, Len(op)))).ok}
    IN  IF fits = {} THEN NoConstraint
        ELSE LET op == CHOOSE o \in fits : TRUE
             IN  ParseConstraintVersion(op, TrimLeft(Drop(t, Len(op))))

\* A prerelease satisfies no comparator whose own version has no prerelease.
PrereleaseBlocked(v, c) == v.pre # <<>> /\ c.con.pre = <<>>

constraintTilde(v, c) ==
    IF PrereleaseBlocked(v, c) THEN FALSE
    ELSE IF LessThan(v, c.con) THEN FALSE
    ELSE IF /\ c.con.major = 0 /\ c.con.minor = 0 /\ c.con.patch = 0
            /\ ~c.minorDirty /\ ~c.patchDirty THEN TRUE
    ELSE IF v.major # c.con.major THEN FALSE
    ELSE IF v.minor # c.con.minor /\ ~c.minorDirty THEN FALSE
    ELSE TRUE

constraintTildeOrEqual(v, c) ==
    IF PrereleaseBlocked(v, c) THEN FALSE
    ELSE IF c.dirty THEN constraintTilde(v, c)
    ELSE Compare(v, c.con) = 0

constraintCaret(v, c) ==
    IF PrereleaseBlocked(v, c) THEN FALSE
    ELSE IF LessThan(v, c.con) THEN FALSE
    ELSE IF c.con.major > 0 \/ c.minorDirty THEN v.major = c.con.major
    ELSE IF c.con.major = 0 /\ v.major > 0 THEN FALSE
    ELSE IF c.con.minor > 0 \/ c.patchDirty THEN v.minor = c.con.minor
    ELSE IF c.con.minor = 0 /\ v.minor > 0 THEN FALSE
    ELSE c.con.patch = v.patch

constraintGreaterThan(v, c) ==
    IF PrereleaseBlocked(v, c) THEN FALSE
    ELSE IF ~c.dirty THEN Compare(v, c.con) = 1
    ELSE IF v.major > c.con.major THEN TRUE
    ELSE IF v.major < c.con.major THEN FALSE
    ELSE IF c.minorDirty THEN FALSE
    ELSE IF v.minor > c.con.minor THEN TRUE
    ELSE IF v.minor < c.con.minor THEN FALSE
    ELSE IF c.patchDirty THEN FALSE
    ELSE TRUE

constraintLessThan(v, c) ==
    IF PrereleaseBlocked(v, c) THEN FALSE
    ELSE Compare(v, c.con) < 0

constraintGreaterThanEqual(v, c) ==
    IF PrereleaseBlocked(v, c) THEN FALSE
    ELSE Compare(v, c.con) >= 0

constraintLessThanEqual(v, c) ==
    IF PrereleaseBlocked(v, c) THEN FALSE
    ELSE IF ~c.dirty THEN Compare(v, c.con) <= 0
    ELSE IF v.major > c.con.major THEN FALSE
    ELSE IF v.major = c.con.major /\ v.minor > c.con.minor /\ ~c.minorDirty THEN FALSE
    ELSE TRUE

\* Constraints.Check
Check(c, v) ==
    IF c.op \in {<<>>, <<"=">>} THEN constraintTildeOrEqual(v, c)
    ELSE IF c.op \in {<<"~">>, <<"~", ">">>} THEN constraintTilde(v, c)
    ELSE IF c.op = <<"^">> THEN constraintCaret(v, c)
    ELSE IF c.op = <<">">> THEN constraintGreaterThan(v, c)
    ELSE IF c.op = <<"<">> THEN constraintLessThan(v, c)
    ELSE IF c.op \in {<<">", "=">>, <<"=", ">">>} THEN constraintGreaterThanEqual(v, c)
    ELSE constraintLessThanEqual(v, c)

(***************************************************************************)
(* internal/registry: isExactVersion and resolveVersion                    *)
(***************************************************************************)

Latest == <<"l", "a", "t", "e", "s", "t">>

\* isExactVersion as it would be without the strings.TrimSpace call.
isExactVersionUntrimmed(version) ==
    IF \/ HasPrefix(version, <<"^">>)
       \/ HasPrefix(version, <<"~">>)
       \/ HasPrefix(version, <<">">>)
       \/ HasPrefix(version, <<"<">>)
       \/ HasPrefix(version, <<"=">>)
       \/ version = Latest
       \/ version = <<"*">>
    THEN FALSE
    ELSE NewVersion(version).ok

\* isExactVersion: no range prefix, not latest or *, and parses as a version.
isExactVersion(version) ==
    LET v == TrimSpace(version)
    IN  IF \/ HasPrefix(v, <<"^">>)
           \/ HasPrefix(v, <<"~">>)
           \/ HasPrefix(v, <<">">>)
           \/ HasPrefix(v, <<"<">>)
           \/ HasPrefix(v, <<"=">>)
           \/ v = Latest
           \/ v = <<"*">>
        THEN FALSE
        ELSE NewVersion(v).ok

\* The keys of metadata.Versions that parse, as the loop collects them.
ParsedVersions(keys) == {NewVersion(k) : k \in {x \in keys : NewVersion(x).ok}}

\* The orders the versions would be left in without sort.Reverse.
SortedAscending(vs) ==
    LET n == Cardinality(vs)
    IN  {seq \in [1..n -> vs] :
            /\ \A i, j \in 1..n : i # j => seq[i] # seq[j]
            /\ \A i, j \in 1..n : i < j => ~LessThan(seq[j], seq[i])}

\* The orders sort.Sort(sort.Reverse(semver.Collection(versions))) can leave
\* the collected versions in: highest first, versions that compare equal in
\* either order (the map is iterated in no fixed order, the sort is not stable).
SortedDescending(vs) ==
    LET n == Cardinality(vs)
    IN  {seq \in [1..n -> vs] :
            /\ \A i, j \in 1..n : i # j => seq[i] # seq[j]
            /\ \A i, j \in 1..n : i < j => ~LessThan(seq[i], seq[j])}

\* The loop as it would be without the constraint.Check call.
FirstUnchecked(seq, c) ==
    IF Len(seq) > 0
    THEN [found |-> TRUE, version |-> String(seq[1])]
    ELSE [found |-> FALSE, version |-> <<>>]

\* The loop over the sorted versions: the first that satisfies the constraint.
FirstSatisfying(seq, c) ==
    IF \E i \in 1..Len(seq) : Check(c, seq[i])
    THEN LET i == CHOOSE k \in 1..Len(seq) :
                      Check(c, seq[k]) /\ \A j \in 1..(k - 1) : ~Check(c, seq[j])
         IN  [found |-> TRUE, version |-> String(seq[i])]
    ELSE [found |-> FALSE, version |-> <<>>]

(***************************************************************************)
(* The strings the resolution is run on                                     *)
(***************************************************************************)

V100 == <<"1", ".", "0", ".", "0">>

V120 == <<"1", ".", "2", ".", "0">>

V123 == <<"1", ".", "2", ".", "3">>

V200 == <<"2", ".", "0", ".", "0">>

V900 == <<"9", ".", "0", ".", "0">>

V12 == <<"1", ".", "2">>

Vv120 == <<"v", "1", ".", "2", ".", "0">>

V130b == <<"1", ".", "3", ".", "0", "-", "b">>

V123m == <<"1", ".", "2", ".", "3", "+", "b">>

\* Most keys a registry answer holds.
MaxKeys == 3

\* Version keys a registry publishes: releases, a prerelease, a key with
\* build metadata, a key the parser normalises (1.2) and one that is no
\* version at all (latest).
KeyInputs == {V100, V120, V123, V200, V12, V130b, V123m, Latest}

RangeOps == {<<"^">>, <<"~">>, <<">">>, <<"<">>, <<">", "=">>, <<"<", "=">>, <<"=">>}

RangeVersions == {V100, V120, V200, V900}

ConstraintInputs ==
    \* exact versions, as written and padded with spaces
    {V100, V120, V123, V12, Vv120, V130b, <<" ">> \o V120 \o <<" ">>,
     <<" ">> \o V100, V123 \o <<" ">>}
    \* ranges
    \cup {op \o v : op \in RangeOps, v \in RangeVersions}
    \cup {<<" ">> \o <<"^">> \o V120, <<"~">> \o V120 \o <<" ">>,
          <<">", "=">> \o V130b, <<"^", "1">>, <<"~", "1">>, <<"~">> \o V12,
          <<"*">>, <<"x">>, <<"1", ".", "x">>, <<" ", "*", " ">>}
    \* neither a version nor a range
    \cup {<<>>, <<" ">>, Latest, <<" ">> \o Latest, <<"^">>, <<"=">>,
          <<"^">> \o Latest, <<"1", ".", "2", ".", "3", ".", "4">>,
          <<"1", ".", ".", "2">>, <<"b", "a", "d">>}

\* What GetPackageMetadata gives the call: an error, or metadata whose
\* versions mapping has these keys.
RegistryInputs ==
    {[ok |-> FALSE, versions |-> {}]}
    \cup {[ok |-> TRUE, versions |-> ks] :
            ks \in {s \in SUBSET KeyInputs : Cardinality(s) <= MaxKeys}}

\* resolveVersion: the results the call can give for a constraint and the
\* registry's answer, with the number of GetPackageMetadata calls it made.
\* An exact version is returned as given and nothing is fetched.
resolveVersion(versionConstraint, registry) ==
    IF isExactVersion(versionConstraint)
    THEN {[err |-> "nil", version |-> versionConstraint, fetches |-> 0]}
    ELSE IF ~registry.ok
    THEN {[err |-> "metadata", version |-> <<>>, fetches |-> 1]}
    ELSE IF ~NewConstraint(versionConstraint).ok
    THEN {[err |-> "invalid_constraint", version |-> <<>>, fetches |-> 1]}
    ELSE {LET r == FirstSatisfying(versions, NewConstraint(versionConstraint))
          IN  IF r.found
              THEN [err |-> "nil", version |-> r.version, fetches |-> 1]
              ELSE [err |-> "no_matching_version", version |-> <<>>, fetches |-> 1] :
          versions \in SortedDescending(ParsedVersions(registry.versions))}

NoResult == [err |-> "pending", version |-> <<>>]

\* No resolveVersion call is modelled on its own.
ResolveUnused ==
    /\ rConstraint = <<>> /\ rRegistry = <<>> /\ rpc = "unused"
    /\ rFetches = 0 /\ rResult = NoResult

\* No DownloadPackage call is modelled.
DownloadUnused ==
    /\ fs = <<>> /\ inode = <<>> /\ pc = <<>> /\ loc = <<>> /\ hist = <<>>
    /\ tampered = {}

\* No DownloadDependencies call is modelled.
DependenciesUnused ==
    /\ dDeps = {} /\ dConcurrency = 0 /\ mpc = "unused" /\ tpc = <<>>
    /\ cpc = "unused" /\ sem = 0 /\ wg = 0
    /\ resultsChan = <<>> /\ errorsChan = <<>>
    /\ results = <<>> /\ downloadErrors = <<>> /\ outcome = <<>> /\ dRet = <<>>

\* No GetPackageMetadata call is modelled on its own.
FetchUnused ==
    /\ fMaxRetries = 0 /\ fMaxWaitTime = 0 /\ fpc = "unused" /\ fAttempt = 0 /\ fLastErr = <<>> /\ fRequests = <<>>
    /\ fWaits = <<>> /\ fRet = <<>>

\* No GetPackageVersion or GetLatestVersion call is modelled on its own.
LookupUnused ==
    /\ lOp = "unused" /\ lArg = <<>> /\ lpc = "unused" /\ lMeta = <<>>
    /\ lChanged = FALSE /\ lLog = <<>> /\ lVersion = <<>> /\ lRet = <<>>

\* No ProgressBar is modelled.
ProgressUnused ==
    /\ bCurrent = 0 /\ bLeft = <<>> /\ bSum = 0 /\ bRead = <<>>

ManifestUnused ==
    /\ wPkg = <<>>
    /\ wFile = <<>>
    /\ wRet = <<>>

BarsUnused ==
    /\ showProgress = FALSE /\ progressBar = 0 /\ pbar = <<>> /\ xpc = <<>>
    /\ xReader = <<>> /\ xLeft = <<>> /\ xWritten = <<>>

InitResolve ==
    /\ DownloadUnused
    /\ DependenciesUnused
    /\ FetchUnused
    /\ LookupUnused
    /\ ProgressUnused
    /\ ManifestUnused
    /\ BarsUnused
    /\ rConstraint \in ConstraintInputs
    /\ rRegistry \in RegistryInputs
    /\ rpc = "start"
    /\ rFetches = 0
    /\ rResult = NoResult

\* One resolveVersion call on the drawn constraint and registry answer.
ResolveVersion ==
    /\ rpc = "start"
    /\ \E r \in resolveVersion(rConstraint, rRegistry) :
          /\ rResult' = [err |-> r.err, version |-> r.version]
          /\ rFetches' = rFetches + r.fetches
    /\ rpc' = "done"
    /\ UNCHANGED <<rConstraint, rRegistry, dlVars, depVars, fetchVars, lookupVars, progVars,
                   manVars, barVars>>

NextResolve == ResolveVersion

SpecResolve == InitResolve /\ [][NextResolve]_vars

(***************************************************************************)
(* Claims about version resolution (SpecResolve)                            *)
(***************************************************************************)

\* The keys of the answer that parse and satisfy the constraint.
Satisfying(keys, c) == {v \in ParsedVersions(keys) : Check(c, v)}

ExactVersionString(s) ==
    LET t == TrimSpace(s)
    IN  /\ t # <<>> => Head(t) \notin {"^", "~", ">", "<", "="}
        /\ t \notin {Latest, <<"*">>}
        /\ NewVersion(t).ok

\* C10: resolveVersion returns an exact version string unchanged without a
\* registry request, and every other string (the empty one included) takes
\* the path that fetches metadata.
C10_ExactVersionNoRequest ==
    rpc = "done" =>
        IF ExactVersionString(rConstraint)
        THEN rResult = [err |-> "nil", version |-> rConstraint] /\ rFetches = 0
        ELSE rFetches = 1

\* An exact version padded with spaces came back as given, spaces included.
C10_Witness ==
    /\ rpc = "done"
    /\ rConstraint = <<" ">> \o V120 \o <<" ">>
    /\ rRegistry.ok
    /\ rResult = [err |-> "nil", version |-> <<" ">> \o V120 \o <<" ">>]
    /\ rFetches = 0

(***************************************************************************)
(* internal/registry: GetPackageVersion                                     *)
(***************************************************************************)

NoInfo == [version |-> <<>>, dependencies |-> {},
           dist |-> [tarball |-> <<>>, shasum |-> [alg |-> "none", of |-> <<>>]]]

\* GetPackageVersion: resolve the constraint (first answer of the registry),
\* fetch the metadata again (second answer) and look the version up in it;
\* fetches counts the GetPackageMetadata calls made.
GetPackageVersion(versionConstraint, first, second) ==
    {IF r.err # "nil"
     THEN [err |-> r.err, info |-> NoInfo, fetches |-> r.fetches]
     ELSE IF ~second.ok
     THEN [err |-> "metadata", info |-> NoInfo, fetches |-> r.fetches + 1]
     ELSE IF r.version \notin second.versions
     THEN [err |-> "version_not_found", info |-> NoInfo, fetches |-> r.fetches + 1]
     ELSE [err |-> "nil", info |-> second.info[r.version],
           fetches |-> r.fetches + 1] :
     r \in resolveVersion(versionConstraint, first)}

(***************************************************************************)
(* internal/downloader: DownloadPackage, checkCache, downloadFile           *)
(***************************************************************************)

\* Callers that may have a DownloadPackage call in progress at once.
NumCallers == 2

\* Returned calls the sequential specification remembers.
HistLen == 3

\* Chunks io.Copy moves an archive in.
ArchiveChunks == 2

cacheDir == "cache"

PkgName == "express"

\* hex.EncodeToString of the SHA-1 of the bytes: distinct bytes, distinct sums.
Shasum(data) == [alg |-> "sha1", of |-> data]

\* The archive the registry advertises for PkgName 1.0.0.
Archive == [i \in 1..ArchiveChunks |-> i]

\* What the archive host may serve instead: the same bytes but the last.
WrongArchive == [i \in 1..ArchiveChunks |-> IF i = ArchiveChunks THEN 0 ELSE i]

\* What an outside writer leaves in a cached file.
TamperedContent == <<3>>

\* The registry's metadata for PkgName, and its other answer: an error.
Published ==
    [ok |-> TRUE, versions |-> {V100},
     info |-> [v \in {V100} |->
                  [version |-> v, dependencies |-> {},
                   dist |-> [tarball |-> <<"tarball", v>>,
                             shasum |-> Shasum(Archive)]]]]

Unreachable == [ok |-> FALSE, versions |-> {}, info |-> <<>>]

RegistryAnswers == {Published, Unreachable}

\* The version arguments of the calls: an exact version and a range that
\* resolves to it.
ExactArg == V100

RangeArg == <<"^">> \o V100

\* filepath.Join(dm.cacheDir, name, version, "package.tgz")
CachePath(name, version) == <<cacheDir, name, version, "package.tgz">>

Paths == {CachePath(PkgName, v) : v \in {ExactArg, RangeArg}}

Callers == 1..NumCallers

Inodes == 1..(NumCallers + 1)

NoFile == [exists |-> FALSE, data |-> <<>>]

\* What a reader finds at a path.
FileAt(f, ino, path) ==
    IF f[path] = 0 THEN NoFile ELSE [exists |-> TRUE, data |-> ino[f[path]]]

IdleLoc ==
    [version |-> <<>>, useCache |-> FALSE, info |-> NoInfo, fetches |-> 0,
     fd |-> 0, sent |-> <<>>, content |-> <<>>, transfers |-> 0,
     pre |-> NoFile, overwritten |-> FALSE]

\* Inodes that a path or an open file of some caller still refers to.
Referenced(f, l) == {f[x] : x \in Paths} \cup {l[q].fd : q \in Callers}

\* An inode nothing refers to is gone: its number is free, its bytes dropped.
Collect(ino, f, l) ==
    [i \in Inodes |-> IF i \in Referenced(f, l) THEN ino[i] ELSE <<>>]

\* A write of one byte at an offset; a gap before it reads as zeros.
WriteAt(data, off, b) ==
    IF off < Len(data) THEN [data EXCEPT ![off + 1] = b]
    ELSE data \o [i \in 1..(off - Len(data)) |-> 0] \o <<b>>

\* os.Remove(path): the name goes; the inode stays while a file is open on it.
Remove(f, path) == [f EXCEPT ![path] = 0]

\* The window of the last n returned calls.
LastN(s, n) == IF Len(s) <= n THEN s ELSE SubSeq(s, Len(s) - n + 1, Len(s))

InitDownload ==
    /\ fs = [x \in Paths |-> 0]
    /\ inode = [i \in Inodes |-> <<>>]
    /\ pc = [q \in Callers |-> "idle"]
    /\ loc = [q \in Callers |-> IdleLoc]
    /\ hist = <<>>
    /\ tampered = {}
    /\ ResolveUnused
    /\ DependenciesUnused
    /\ FetchUnused
    /\ LookupUnused
    /\ ProgressUnused
    /\ ManifestUnused
    /\ BarsUnused

\* A caller enters DownloadPackage(name, version, opts).
Call(p, versions) ==
    /\ pc[p] = "idle"
    /\ \E version \in versions, useCache \in BOOLEAN :
          LET path == CachePath(PkgName, version)
          IN  /\ loc' = [loc EXCEPT ![p] =
                            [IdleLoc EXCEPT !.version = version,
                                            !.useCache = useCache,
                                            !.pre = FileAt(fs, inode, path),
                                            !.overwritten = path \in tampered]]
              /\ tampered' = tampered \ {path}
    /\ pc' = [pc EXCEPT ![p] = "resolve"]
    /\ UNCHANGED <<fs, inode, hist, resVars, depVars, fetchVars, lookupVars, progVars, manVars,
                   barVars>>

\* DownloadPackage returns: the call joins the window of returned calls and
\* its deferred out.Close() has run.  The record holds what was returned
\* (err, path, shasum; hit when the path came from the cache) and what the
\* call saw and did: the file at its path when it began (pre) and at the
\* moment of the return (post), the version the registry resolved the
\* argument to, the expected checksum, the metadata fetches made (fetches),
\* the archive requests made (transfers), whether the body was received to its
\* end (copied), and the bytes received when it was.
Return(p, l, err, hit, f, keep) ==
    LET path == CachePath(PkgName, l.version)
        l2   == [loc EXCEPT ![p] = IdleLoc]
        done == err \in {"nil", "checksum_mismatch"} /\ ~hit
        rec  == [name |-> PkgName, version |-> l.version, useCache |-> l.useCache,
                 err |-> err, hit |-> hit,
                 path |-> IF err = "nil" THEN path ELSE <<>>,
                 shasum |-> IF err = "nil" THEN l.info.dist.shasum
                            ELSE NoInfo.dist.shasum,
                 resolved |-> l.info.version,
                 expected |-> l.info.dist.shasum,
                 fetches |-> l.fetches,
                 transfers |-> l.transfers,
                 received |-> IF done THEN l.sent ELSE <<>>,
                 copied |-> done,
                 pre |-> l.pre, overwritten |-> l.overwritten,
                 post |-> FileAt(f, inode, path)]
    IN  /\ hist' = LastN(Append(hist, rec), keep)
        /\ pc' = [pc EXCEPT ![p] = "idle"]
        /\ loc' = l2
        /\ fs' = f
        /\ inode' = Collect(inode, f, l2)
        /\ UNCHANGED <<tampered, resVars, depVars, fetchVars, lookupVars, progVars, manVars, barVars>>

\* DownloadPackage as it would be if it checked the cache whatever
\* opts.UseCache says.
ResolveAlwaysChecksCache(p, keep) ==
    /\ pc[p] = "resolve"
    /\ \E first \in RegistryAnswers, second \in RegistryAnswers :
       \E r \in GetPackageVersion(loc[p].version, first, second) :
          IF r.err # "nil"
          THEN Return(p, [loc[p] EXCEPT !.fetches = r.fetches], "metadata",
                      FALSE, fs, keep)
          ELSE /\ loc' = [loc EXCEPT ![p].info = r.info,
                                     ![p].fetches = r.fetches]
               /\ pc' = [pc EXCEPT ![p] = "stat"]
               /\ UNCHANGED <<fs, inode, hist, tampered, resVars, depVars, fetchVars, lookupVars, progVars,
                   manVars, barVars>>

\* DownloadPackage as it would be if it served the file stored for the name
\* and version when the registry cannot be asked.
ResolveOfflineHit(p, keep) ==
    /\ pc[p] = "resolve"
    /\ \E first \in RegistryAnswers, second \in RegistryAnswers :
       \E r \in GetPackageVersion(loc[p].version, first, second) :
          IF r.err # "nil"
          THEN IF loc[p].useCache /\ fs[CachePath(PkgName, loc[p].version)] # 0
               THEN Return(p, [loc[p] EXCEPT !.fetches = r.fetches], "nil",
                           TRUE, fs, keep)
               ELSE Return(p, [loc[p] EXCEPT !.fetches = r.fetches], "metadata",
                           FALSE, fs, keep)
          ELSE /\ loc' = [loc EXCEPT ![p].info = r.info,
                                     ![p].fetches = r.fetches]
               /\ pc' = [pc EXCEPT ![p] =
                            IF loc[p].useCache THEN "stat" ELSE "create"]
               /\ UNCHANGED <<fs, inode, hist, tampered, resVars, depVars,
                              fetchVars, lookupVars, progVars, manVars,
                              barVars>>

\* dm.registry.GetPackageVersion(name, version): each of its metadata
\* fetches is answered or not.
Resolve(p, keep) ==
    /\ pc[p] = "resolve"
    /\ \E first \in RegistryAnswers, second \in RegistryAnswers :
       \E r \in GetPackageVersion(loc[p].version, first, second) :
          IF r.err # "nil"
          THEN Return(p, [loc[p] EXCEPT !.fetches = r.fetches], "metadata",
                      FALSE, fs, keep)
          ELSE /\ loc' = [loc EXCEPT ![p].info = r.info,
                                     ![p].fetches = r.fetches]
               /\ pc' = [pc EXCEPT ![p] =
                            IF loc[p].useCache THEN "stat" ELSE "create"]
               /\ UNCHANGED <<fs, inode, hist, tampered, resVars, depVars, fetchVars, lookupVars, progVars,
                   manVars, barVars>>

\* checkCache as it would be if it never found the file.
CacheStatAlwaysMiss(p) ==
    /\ pc[p] = "stat"
    /\ pc' = [pc EXCEPT ![p] = "create"]
    /\ UNCHANGED <<fs, inode, loc, hist, tampered, resVars, depVars, fetchVars, lookupVars, progVars,
                   manVars, barVars>>

\* checkCache, os.Stat: no file is a miss, and the download follows.
CacheStat(p) ==
    /\ pc[p] = "stat"
    /\ pc' = [pc EXCEPT ![p] =
                 IF fs[CachePath(PkgName, loc[p].version)] = 0
                 THEN "create" ELSE "read"]
    /\ UNCHANGED <<fs, inode, loc, hist, tampered, resVars, depVars, fetchVars, lookupVars, progVars,
                   manVars, barVars>>

\* checkCache, os.ReadFile: a file that cannot be read is a miss too.
CacheRead(p) ==
    /\ pc[p] = "read"
    /\ LET file == FileAt(fs, inode, CachePath(PkgName, loc[p].version))
       IN  IF ~file.exists
           THEN /\ pc' = [pc EXCEPT ![p] = "create"]
                /\ UNCHANGED loc
           ELSE /\ pc' = [pc EXCEPT ![p] = "compare"]
                /\ loc' = [loc EXCEPT ![p].content = file.data]
    /\ UNCHANGED <<fs, inode, hist, tampered, resVars, depVars, fetchVars, lookupVars, progVars,
                   manVars, barVars>>

\* checkCache as it would be without the os.Remove of a mismatching file.
CacheCompareKeepsFile(p, keep) ==
    /\ pc[p] = "compare"
    /\ IF Shasum(loc[p].content) # loc[p].info.dist.shasum
       THEN Return(p, loc[p], "cache_checksum_mismatch", FALSE, fs, keep)
       ELSE Return(p, loc[p], "nil", TRUE, fs, keep)

\* DownloadPackage as it would be if it took checkCache's error for a miss.
CacheCompareDowngrades(p, keep) ==
    /\ pc[p] = "compare"
    /\ IF Shasum(loc[p].content) # loc[p].info.dist.shasum
       THEN /\ fs' = Remove(fs, CachePath(PkgName, loc[p].version))
            /\ inode' = Collect(inode, fs', loc)
            /\ pc' = [pc EXCEPT ![p] = "create"]
            /\ UNCHANGED <<loc, hist, tampered, resVars, depVars, fetchVars, lookupVars, progVars,
                   manVars, barVars>>
       ELSE Return(p, loc[p], "nil", TRUE, fs, keep)

\* checkCache as it would be if it took any file it could read for a hit.
CacheCompareNoCheck(p, keep) ==
    /\ pc[p] = "compare"
    /\ Return(p, loc[p], "nil", TRUE, fs, keep)

\* DownloadPackage as it would be if it downloaded the archive again after
\* the cache check found a valid file.
CacheCompareRefetches(p, keep) ==
    /\ pc[p] = "compare"
    /\ IF Shasum(loc[p].content) # loc[p].info.dist.shasum
       THEN Return(p, loc[p], "cache_checksum_mismatch", FALSE,
                   Remove(fs, CachePath(PkgName, loc[p].version)), keep)
       ELSE /\ pc' = [pc EXCEPT ![p] = "create"]
            /\ UNCHANGED <<fs, inode, loc, hist, tampered, resVars, depVars,
                           fetchVars, lookupVars, progVars, manVars, barVars>>

\* checkCache, the comparison: a match is a hit, which DownloadPackage
\* returns; a mismatch removes the file and is an error, which it propagates.
CacheCompare(p, keep) ==
    /\ pc[p] = "compare"
    /\ IF Shasum(loc[p].content) # loc[p].info.dist.shasum
       THEN Return(p, loc[p], "cache_checksum_mismatch", FALSE,
                   Remove(fs, CachePath(PkgName, loc[p].version)), keep)
       ELSE Return(p, loc[p], "nil", TRUE, fs, keep)

\* downloadFile, os.MkdirAll and os.Create: a new empty file, or the file
\* already at the path truncated.
Create(p) ==
    /\ pc[p] = "create"
    /\ LET path == CachePath(PkgName, loc[p].version)
           i    == IF fs[path] # 0 THEN fs[path]
                   ELSE CHOOSE k \in Inodes :
                            /\ k \notin Referenced(fs, loc)
                            /\ \A j \in Inodes : j < k => j \in Referenced(fs, loc)
       IN  /\ fs' = [fs EXCEPT ![path] = i]
           /\ inode' = [inode EXCEPT ![i] = <<>>]
           /\ loc' = [loc EXCEPT ![p].fd = i]
    /\ pc' = [pc EXCEPT ![p] = "request"]
    /\ UNCHANGED <<hist, tampered, resVars, depVars, fetchVars, lookupVars, progVars, manVars,
                   barVars>>

\* downloadFile as it would be if it sent the request again after a
\* transport error.
RequestRetries(p, keep) ==
    /\ pc[p] = "request"
    /\ \/ /\ loc[p].transfers < 2
          /\ loc' = [loc EXCEPT ![p].transfers = @ + 1]
          /\ UNCHANGED <<pc, fs, inode, hist, tampered, resVars, depVars, fetchVars, lookupVars, progVars,
                   manVars, barVars>>
       \/ \E err \in {"transport", "status"} :
             Return(p, [loc[p] EXCEPT !.transfers = @ + 1], err, FALSE, fs, keep)
       \/ /\ loc' = [loc EXCEPT ![p].transfers = @ + 1]
          /\ pc' = [pc EXCEPT ![p] = "copy"]
          /\ UNCHANGED <<fs, inode, hist, tampered, resVars, depVars, fetchVars, lookupVars, progVars,
                   manVars, barVars>>

\* downloadFile, dm.client.Do and the status check: the request fails, is
\* answered with another status than 200, or is answered with 200 and a body
\* to read.  Nothing is retried.
Request(p, keep) ==
    /\ pc[p] = "request"
    /\ \/ \E err \in {"transport", "status"} :
             Return(p, [loc[p] EXCEPT !.transfers = @ + 1], err, FALSE, fs, keep)
       \/ /\ loc' = [loc EXCEPT ![p].transfers = @ + 1]
          /\ pc' = [pc EXCEPT ![p] = "copy"]
          /\ UNCHANGED <<fs, inode, hist, tampered, resVars, depVars, fetchVars, lookupVars, progVars,
                   manVars, barVars>>

\* The bodies the archive host may answer with.
ServedBodies == {Archive, WrongArchive}

\* The bodies that begin with the bytes received so far.
Continuing(sent) == {b \in ServedBodies : Len(b) >= Len(sent) /\ Take(b, Len(sent)) = sent}

\* downloadFile, io.Copy: one more chunk of the body is read and goes to the
\* file, at this caller's offset in it, and to the hash.
CopyChunk(p) ==
    /\ pc[p] = "copy"
    /\ \E body \in Continuing(loc[p].sent) :
          /\ Len(loc[p].sent) < Len(body)
          /\ inode' = [inode EXCEPT ![loc[p].fd] =
                          WriteAt(@, Len(loc[p].sent), body[Len(loc[p].sent) + 1])]
          /\ loc' = [loc EXCEPT ![p].sent = Append(@, body[Len(loc[p].sent) + 1])]
    /\ UNCHANGED <<fs, pc, hist, tampered, resVars, depVars, fetchVars, lookupVars, progVars,
                   manVars, barVars>>

\* downloadFile, io.Copy fails: the body broke off before its end; the file
\* is removed.
CopyInterrupted(p, keep) ==
    /\ pc[p] = "copy"
    /\ loc[p].sent \notin ServedBodies
    /\ Return(p, loc[p], "interrupted", FALSE,
              Remove(fs, CachePath(PkgName, loc[p].version)), keep)

\* downloadFile as it would be without the os.Remove after a mismatch.
VerifyKeepsFile(p, keep) ==
    /\ pc[p] = "copy"
    /\ loc[p].sent \in ServedBodies
    /\ IF Shasum(loc[p].sent) # loc[p].info.dist.shasum
       THEN Return(p, loc[p], "checksum_mismatch", FALSE, fs, keep)
       ELSE Return(p, loc[p], "nil", FALSE, fs, keep)

\* downloadFile, the body ended: the checksum of the bytes that went through
\* the hash is compared; on a mismatch the file is removed and the call
\* fails; on a match DownloadPackage returns the target path.
Verify(p, keep) ==
    /\ pc[p] = "copy"
    /\ loc[p].sent \in ServedBodies
    /\ IF Shasum(loc[p].sent) # loc[p].info.dist.shasum
       THEN Return(p, loc[p], "checksum_mismatch", FALSE,
                   Remove(fs, CachePath(PkgName, loc[p].version)), keep)
       ELSE Return(p, loc[p], "nil", FALSE, fs, keep)

\* Something else than DownloadPackage overwrites a cached file, between
\* calls, with other bytes (os.WriteFile in TestChecksumVerification).
Tamper ==
    /\ \A q \in Callers : pc[q] = "idle"
    /\ \E path \in Paths :
          /\ fs[path] # 0
          /\ inode[fs[path]] # TamperedContent
          /\ inode' = [inode EXCEPT ![fs[path]] = TamperedContent]
          /\ tampered' = IF Shasum(inode[fs[path]]) = Published.info[V100].dist.shasum
                         THEN tampered \cup {path} ELSE tampered
    /\ UNCHANGED <<fs, pc, loc, hist, resVars, depVars, fetchVars, lookupVars, progVars, manVars,
                   barVars>>

\* The steps of caller p; versions are the version arguments it may pass and
\* keep the number of returned calls remembered.
DownloadPackage(p, versions, keep) ==
    \/ Call(p, versions)
    \/ Resolve(p, keep)
    \/ CacheStat(p)
    \/ CacheRead(p)
    \/ CacheCompare(p, keep)
    \/ Create(p)
    \/ Request(p, keep)
    \/ CopyChunk(p)
    \/ CopyInterrupted(p, keep)
    \/ Verify(p, keep)

\* One caller: its calls follow one another, with outside writes between.
Next ==
    \/ DownloadPackage(1, {ExactArg}, HistLen)
    \/ Tamper

Spec == InitDownload /\ [][Next]_vars

\* Callers whose calls, for the same name and version, overlap; nothing else
\* writes to the cache.
NextConcurrent == \E p \in Callers : DownloadPackage(p, {ExactArg}, 1)

SpecConcurrent == InitDownload /\ [][NextConcurrent]_vars

\* One caller whose calls pass an exact version or a range that resolves to
\* it; the last two returned calls are remembered.
NextKeys == DownloadPackage(1, {ExactArg, RangeArg}, 2)

SpecKeys == InitDownload /\ [][NextKeys]_vars

\* One call by each caller, for the same name and version, every one begun
\* before any has returned.
NextPair ==
    \E p \in Callers :
        /\ pc[p] = "idle" => hist = <<>>
        /\ DownloadPackage(p, {ExactArg}, NumCallers)

SpecPair == InitDownload /\ [][NextPair]_vars

(***************************************************************************)
(* Claims about DownloadPackage                                             *)
(***************************************************************************)

\* The error text says "checksum mismatch" (both the cache's and the
\* transfer's do).
MentionsChecksumMismatch(err) ==
    err \in {"cache_checksum_mismatch", "checksum_mismatch"}

\* The file is there and its bytes have the checksum.
Valid(file, shasum) == file.exists /\ Shasum(file.data) = shasum

\* C1: whenever a call returns a cache hit, the file at the returned path
\* has, at that moment, the checksum the registry advertises, also when
\* calls for the same name and version overlap.
C1_CacheHitMatchesChecksum ==
    \A i \in 1..Len(hist) :
        hist[i].hit => Valid(hist[i].post, hist[i].shasum)

\* C2: a transfer whose body was received to its end: when the digest of the
\* received bytes is the expected checksum the call succeeds and the file at
\* the returned path holds exactly those bytes; when it is not, the call
\* fails with a checksum mismatch and no file is at the target path when the
\* error is returned.
C2_FreshTransferVerified ==
    \A i \in 1..Len(hist) :
        LET r == hist[i]
        IN  r.copied =>
               IF Shasum(r.received) = r.expected
               THEN /\ r.err = "nil"
                    /\ r.path = CachePath(r.name, r.version)
                    /\ r.post = [exists |-> TRUE, data |-> r.received]
               ELSE /\ r.err = "checksum_mismatch"
                    /\ ~r.post.exists

\* A transfer of the wrong bytes has failed and left nothing, after one of
\* the right bytes had succeeded.
C2_Witness ==
    /\ Len(hist) >= 2
    /\ hist[Len(hist) - 1].copied /\ hist[Len(hist) - 1].err = "nil"
    /\ hist[Len(hist) - 1].received = Archive
    /\ hist[Len(hist)].copied /\ hist[Len(hist)].err = "checksum_mismatch"
    /\ hist[Len(hist)].received = WrongArchive
    /\ hist[Len(hist)].pre.exists /\ ~hist[Len(hist)].post.exists

\* The call's version info was resolved (the registry answered).
Resolved(r) == r.err # "metadata"

\* C3: two calls in succession for the same name and version with useCache,
\* the first starting from an empty cache and succeeding, the second with
\* its version info resolved and no outside write in between: one archive
\* transfer in total, and the second returns the path and the checksum the
\* first returned.
C3_SecondCallUsesCache ==
    \A i \in 1..(Len(hist) - 1) :
        LET a == hist[i]
            b == hist[i + 1]
        IN  (/\ a.useCache /\ b.useCache
             /\ a.name = b.name /\ a.version = b.version
             /\ ~a.pre.exists /\ a.err = "nil"
             /\ Resolved(b) /\ ~b.overwritten)
            => /\ a.transfers + b.transfers = 1
               /\ b.err = "nil"
               /\ b.path = a.path
               /\ b.shasum = a.shasum

\* A download into the empty cache followed by a hit.
C3_Witness ==
    /\ Len(hist) >= 2
    /\ hist[1].useCache /\ ~hist[1].pre.exists /\ hist[1].err = "nil"
    /\ hist[1].transfers = 1
    /\ hist[2].useCache /\ hist[2].hit /\ hist[2].transfers = 0
    /\ hist[2].path = hist[1].path

\* C4: corruption recovery.  A valid cached archive is overwritten with other
\* bytes.  The next call with useCache (a) fails with a checksum mismatch
\* without a transfer, and the file is gone afterwards.  The call after that
\* (b) re-fetches: it makes one transfer, and when the advertised archive
\* arrives it succeeds and leaves a file with the advertised checksum.  A
\* further call with useCache (c) is a cache hit on the same path.
C4_CorruptionRecovery ==
    \A i \in 1..Len(hist) :
        LET a == hist[i]
        IN  (a.overwritten /\ a.useCache /\ Resolved(a))
            => /\ MentionsChecksumMismatch(a.err)
               /\ a.transfers = 0
               /\ ~a.post.exists
               /\ i + 1 <= Len(hist) =>
                     LET b == hist[i + 1]
                     IN  Resolved(b)
                         => /\ b.transfers = 1
                            /\ ~b.hit
                            /\ (b.copied /\ b.received = Archive)
                               => /\ b.err = "nil"
                                  /\ Valid(b.post, b.expected)
                            /\ (b.err = "nil" /\ i + 2 <= Len(hist)) =>
                                  LET c == hist[i + 2]
                                  IN  (c.useCache /\ Resolved(c) /\ ~c.overwritten)
                                      => /\ c.hit
                                         /\ c.err = "nil"
                                         /\ c.path = b.path
                                         /\ Valid(c.post, c.shasum)

\* The whole recovery: mismatch and removal, re-fetch, hit.
C4_Witness ==
    /\ Len(hist) = 3
    /\ hist[1].overwritten /\ hist[1].useCache
    /\ hist[1].pre = [exists |-> TRUE, data |-> TamperedContent]
    /\ hist[1].err = "cache_checksum_mismatch" /\ ~hist[1].post.exists
    /\ hist[2].useCache /\ hist[2].err = "nil" /\ hist[2].transfers = 1
    /\ hist[2].post = [exists |-> TRUE, data |-> Archive]
    /\ hist[3].useCache /\ hist[3].hit /\ hist[3].path = hist[2].path

\* C5: a call with useCache that finds a cached file whose checksum is not
\* the expected one returns an error and makes no archive transfer: the
\* mismatch is not treated as a miss.
C5_MismatchNotAMiss ==
    \A i \in 1..Len(hist) :
        LET r == hist[i]
        IN  (r.useCache /\ Resolved(r) /\ r.pre.exists
             /\ Shasum(r.pre.data) # r.expected)
            => /\ r.err = "cache_checksum_mismatch"
               /\ r.transfers = 0

\* A call found an overwritten file and failed without a transfer.
C5_Witness ==
    /\ Len(hist) >= 1
    /\ hist[Len(hist)].useCache
    /\ hist[Len(hist)].pre = [exists |-> TRUE, data |-> TamperedContent]
    /\ hist[Len(hist)].err = "cache_checksum_mismatch"
    /\ hist[Len(hist)].transfers = 0


\* The failures of the archive transfer.
TransferErrors == {"transport", "status", "interrupted", "checksum_mismatch"}

\* C15: the archive transfer is not retried: a DownloadPackage call requests
\* the archive at most once, also while it is under way, and a call that
\* fails with a transport error, a status other than 200 or an interrupted
\* copy has made that one request and no second one.
C15_TransferNotRetried ==
    /\ \A p \in Callers : loc[p].transfers <= 1
    /\ \A i \in 1..Len(hist) :
          /\ hist[i].transfers <= 1
          /\ hist[i].err \in {"transport", "status", "interrupted"}
                => hist[i].transfers = 1

\* Three calls in a row failed, one in each of the three ways, each after
\* one request.
C15_Witness ==
    /\ Len(hist) = 3
    /\ {hist[i].err : i \in 1..3} = {"transport", "status", "interrupted"}
    /\ \A i \in 1..3 : hist[i].transfers = 1

\* C16: the cache lookup of a call with useCache has three outcomes.  No file
\* at the path: a miss without an error, which changes nothing (the call
\* goes on to the transfer).  A file with the expected checksum: found, with
\* the path, and the file is as it was.  A file with another checksum: the
\* file is deleted and the lookup's error ends the call; it is not a miss.
C16_CacheLookupOutcomes ==
    /\ [](\A i \in 1..Len(hist) :
            LET r == hist[i]
            IN  (r.useCache /\ Resolved(r)) =>
                   IF ~r.pre.exists
                   THEN ~r.hit /\ r.err # "cache_checksum_mismatch" /\ r.transfers = 1
                   ELSE IF Shasum(r.pre.data) = r.expected
                   THEN /\ r.hit /\ r.err = "nil" /\ r.transfers = 0
                        /\ r.path = CachePath(r.name, r.version)
                        /\ r.post = r.pre
                   ELSE /\ ~r.hit /\ r.err = "cache_checksum_mismatch"
                        /\ r.transfers = 0
                        /\ ~r.post.exists)
    /\ [][\A p \in Callers :
             (pc[p] = "stat" /\ fs[CachePath(PkgName, loc[p].version)] = 0)
                => /\ pc'[p] = "create"
                   /\ UNCHANGED <<fs, inode, hist>>]_vars

\* The three outcomes in three successive calls: a miss, a hit, and after an
\* outside write a mismatch.
C16_Witness ==
    /\ Len(hist) = 3
    /\ \A i \in 1..3 : hist[i].useCache
    /\ ~hist[1].pre.exists /\ hist[1].err = "nil" /\ hist[1].transfers = 1
    /\ hist[2].hit
    /\ hist[3].overwritten /\ hist[3].err = "cache_checksum_mismatch"
    /\ ~hist[3].post.exists

\* C17: after a DownloadPackage call that fails in its transfer (transport
\* error, status other than 200, interrupted copy, checksum mismatch) no file
\* is at the cache path of its name and version.
C17_NoEntryAfterFailure ==
    \A i \in 1..Len(hist) :
        hist[i].err \in TransferErrors => ~hist[i].post.exists


\* ---- A claim under SpecKeys

\* The checksum the registry advertises for the archive.
Advertised == Published.info[V100].dist.shasum

\* C25 as written: when useCache is set and the file stored for the name and
\* version is valid as the call begins, DownloadPackage returns the hit and
\* has made no request at all, neither to the registry nor for the archive.
C25_HitWithoutNetwork ==
    \A i \in 1..Len(hist) :
        (hist[i].useCache /\ Valid(hist[i].pre, Advertised))
            => /\ hist[i].hit /\ hist[i].err = "nil"
               /\ hist[i].fetches = 0
               /\ hist[i].transfers = 0

\* C25 as amended: DownloadPackage first resolves the version info, which
\* costs at least one metadata fetch; when useCache is set and the stored
\* file is valid, a call whose version info was resolved returns the hit (the
\* cache path and the advertised checksum) with no archive request, and a
\* call whose resolution failed returns that error; either way the stored file
\* is left as it was.
C25_HitWithoutTransfer ==
    \A i \in 1..Len(hist) :
        (hist[i].useCache /\ Valid(hist[i].pre, Advertised))
            => /\ hist[i].fetches >= 1
               /\ hist[i].transfers = 0
               /\ hist[i].post = hist[i].pre
               /\ IF Resolved(hist[i])
                  THEN /\ hist[i].hit /\ hist[i].err = "nil"
                       /\ hist[i].path = CachePath(hist[i].name, hist[i].version)
                       /\ hist[i].shasum = Advertised
                  ELSE ~hist[i].hit /\ hist[i].path = <<>>

\* Over the same valid file, one call with useCache failed at the registry and
\* the next returned the hit after one metadata fetch.
C25_Witness ==
    \E i \in 1..(Len(hist) - 1) :
        /\ hist[i].useCache /\ Valid(hist[i].pre, Advertised)
        /\ hist[i].err = "metadata"
        /\ hist[i + 1].useCache /\ hist[i + 1].hit
        /\ hist[i + 1].fetches = 1 /\ hist[i + 1].transfers = 0
        /\ hist[i + 1].post = hist[i].pre


\* The steps of one call in their order: from each position, the positions
\* that may follow it.  The cache check is stat, read, compare; the transfer
\* is create, request, copy, and its checksum comparison ends copy.
StepOrder(useCache) ==
    {<<"idle", "resolve">>, <<"resolve", "idle">>,
     <<"create", "request">>, <<"request", "idle">>, <<"request", "copy">>,
     <<"copy", "idle">>}
    \cup (IF useCache
          THEN {<<"resolve", "stat">>, <<"stat", "read">>, <<"stat", "create">>,
                <<"read", "compare">>, <<"read", "create">>,
                <<"compare", "idle">>}
          ELSE {<<"resolve", "create">>})

\* C27: a DownloadPackage call goes through its steps in one order: the
\* version info is resolved, then the cache is checked, only when useCache is
\* set, then one transfer is made, only after a miss or with the cache
\* disabled, then the checksum of what was received is compared.  A call
\* with useCache = false whose version info was resolved never consults the
\* cache and always makes its one transfer, also over a valid stored archive;
\* a hit is returned without a transfer.
C27_StepOrder ==
    /\ [][\A p \in Callers :
             pc[p] # pc'[p]
                => <<pc[p], pc'[p]>> \in
                      StepOrder(IF pc[p] = "idle" THEN loc'[p].useCache
                                ELSE loc[p].useCache)]_vars
    /\ [](\A p \in Callers :
             /\ loc[p].transfers <= 1
             /\ pc[p] \in {"stat", "read", "compare"}
                   => loc[p].useCache /\ loc[p].transfers = 0
             /\ pc[p] = "copy" => loc[p].transfers = 1)
    /\ [](\A i \in 1..Len(hist) :
             /\ hist[i].transfers <= 1
             /\ hist[i].hit => hist[i].useCache /\ hist[i].transfers = 0
             /\ hist[i].copied => hist[i].transfers = 1
             /\ (~hist[i].useCache /\ Resolved(hist[i]))
                   => hist[i].transfers = 1 /\ ~hist[i].hit)

\* A call with useCache = false over a valid stored archive: it made its
\* transfer, compared the checksum and succeeded.
C27_Witness ==
    \E i \in 1..Len(hist) :
        /\ ~hist[i].useCache
        /\ Valid(hist[i].pre, Advertised)
        /\ hist[i].transfers = 1 /\ hist[i].copied
        /\ hist[i].err = "nil" /\ ~hist[i].hit

\* C18: cache entries are keyed by the resolved version: a successful
\* DownloadPackage(name, constraint) returns the path of the concrete version
\* the constraint resolves to and reports that version in its result, so
\* two constraints that resolve to the same version share one cache entry.
C18_KeyedByResolvedVersion ==
    /\ \A i \in 1..Len(hist) :
          hist[i].err = "nil"
             => /\ hist[i].path = CachePath(hist[i].name, hist[i].resolved)
                /\ hist[i].version = hist[i].resolved
    /\ \A i, j \in 1..Len(hist) :
          (/\ hist[i].err = "nil" /\ hist[j].err = "nil"
           /\ hist[i].name = hist[j].name
           /\ hist[i].resolved = hist[j].resolved)
             => hist[i].path = hist[j].path

\* ---- A claim under SpecPair

\* The registry answered the call and the archive host, when asked, served
\* the advertised archive to its end.
ServedAsAdvertised(r) ==
    /\ Resolved(r)
    /\ r.err \notin {"transport", "status", "interrupted"}
    /\ r.transfers = 1 => (r.copied /\ r.received = Archive)

\* C19: calls for the same name and version that run concurrently, served
\* the advertised content, all succeed, and once all have finished the file
\* at the shared path exists and holds the complete archive with the
\* advertised checksum.
C19_ConcurrentCallsBothSucceed ==
    (/\ \A p \in Callers : pc[p] = "idle"
     /\ Len(hist) >= 2
     /\ \A i \in 1..Len(hist) : ServedAsAdvertised(hist[i]))
    => /\ \A i \in 1..Len(hist) : hist[i].err = "nil"
       /\ Valid(FileAt(fs, inode, CachePath(PkgName, ExactArg)), Shasum(Archive))


\* ---------------------------------------------------------------------------
\* DownloadManager.DownloadDependencies: one goroutine per dependency behind a
\* semaphore channel, a goroutine that waits for them and closes the two
\* channels, and the caller collecting first the errors and then the results.
\* A dependency's DownloadPackage call is a span that ends in a result or in
\* an error.
\* ---------------------------------------------------------------------------

MaxDeps == 4

defaultConcurrency == 3

DepNames == 1..MaxDeps

\* opts.Concurrency as the caller may pass it.
ConcurrencyInputs == 0..(MaxDeps - 1)

\* The capacity a gate would have if opts.Concurrency were ignored.
GateSizeDefaultOnly(concurrency) == defaultConcurrency

\* The capacity a gate would have if the default were a floor.
GateSizeFloor(concurrency) ==
    IF concurrency > defaultConcurrency THEN concurrency ELSE defaultConcurrency

\* The capacity of the semaphore channel: the default replaces a value that is
\* not positive.
GateSize(concurrency) ==
    IF concurrency <= 0 THEN defaultConcurrency ELSE concurrency

NoChan == [buf |-> <<>>, closed |-> FALSE]

NoReturn == [returned |-> FALSE, results |-> <<>>, err |-> "nil", failures |-> <<>>]

InitDependencies ==
    /\ DownloadUnused
    /\ ResolveUnused
    /\ FetchUnused
    /\ LookupUnused
    /\ ProgressUnused
    /\ ManifestUnused
    /\ BarsUnused
    /\ dDeps \in {1..n : n \in 0..MaxDeps}
    /\ dConcurrency \in ConcurrencyInputs
    /\ mpc = "start"
    /\ tpc = [t \in DepNames |-> "none"]
    /\ cpc = "none"
    /\ sem = 0
    /\ wg = 0
    /\ resultsChan = NoChan
    /\ errorsChan = NoChan
    /\ results = <<>>
    /\ downloadErrors = <<>>
    /\ outcome = [t \in DepNames |-> "none"]
    /\ dRet = NoReturn

\* DownloadDependencies as it would be without the early return for a version
\* that declares no dependencies.
DepMetadataNoEarlyReturn ==
    /\ mpc = "start"
    /\ \E ok \in BOOLEAN :
          IF ~ok
          THEN /\ mpc' = "returned"
               /\ dRet' = [NoReturn EXCEPT !.returned = TRUE, !.err = "metadata"]
          ELSE /\ mpc' = "spawning"
               /\ UNCHANGED dRet
    /\ UNCHANGED <<dDeps, dConcurrency, tpc, cpc, sem, wg, resultsChan, errorsChan,
                   results, downloadErrors, outcome, resVars, dlVars, fetchVars, lookupVars, progVars,
                   manVars, barVars>>

\* GetPackageVersion for the package itself: an error is returned at once with
\* no results, and so is the empty list when there is nothing to download.
DepMetadata ==
    /\ mpc = "start"
    /\ \E ok \in BOOLEAN :
          IF ~ok
          THEN /\ mpc' = "returned"
               /\ dRet' = [NoReturn EXCEPT !.returned = TRUE, !.err = "metadata"]
          ELSE IF dDeps = {}
          THEN /\ mpc' = "returned"
               /\ dRet' = [NoReturn EXCEPT !.returned = TRUE]
          ELSE /\ mpc' = "spawning"
               /\ UNCHANGED dRet
    /\ UNCHANGED <<dDeps, dConcurrency, tpc, cpc, sem, wg, resultsChan, errorsChan,
                   results, downloadErrors, outcome, resVars, dlVars, fetchVars, lookupVars,
                   progVars, manVars, barVars>>

\* A loop that would start a goroutine for any package it knows of, whether
\* or not it is an entry of versionInfo.Dependencies.
SpawnAnyPackage(t) ==
    /\ mpc = "spawning"
    /\ tpc[t] = "none"
    /\ wg' = wg + 1
    /\ tpc' = [tpc EXCEPT ![t] = "spawned"]
    /\ UNCHANGED <<dDeps, dConcurrency, mpc, cpc, sem, resultsChan, errorsChan,
                   results, downloadErrors, outcome, dRet, resVars, dlVars,
                   fetchVars, lookupVars, progVars, manVars, barVars>>

\* The range loop: wg.Add(1) and the go statement for one dependency, in the
\* map's order, which is any order.
Spawn(t) ==
    /\ mpc = "spawning"
    /\ t \in dDeps
    /\ tpc[t] = "none"
    /\ wg' = wg + 1
    /\ tpc' = [tpc EXCEPT ![t] = "spawned"]
    /\ UNCHANGED <<dDeps, dConcurrency, mpc, cpc, sem, resultsChan, errorsChan,
                   results, downloadErrors, outcome, dRet, resVars, dlVars, fetchVars, lookupVars,
                   progVars, manVars, barVars>>

\* After the loop: the goroutine that waits is started and the caller goes on
\* to range over errorsChan.
StartCloser ==
    /\ mpc = "spawning"
    /\ \A t \in dDeps : tpc[t] # "none"
    /\ cpc' = "waiting"
    /\ mpc' = "collectErrors"
    /\ UNCHANGED <<dDeps, dConcurrency, tpc, sem, wg, resultsChan, errorsChan,
                   results, downloadErrors, outcome, dRet, resVars, dlVars, fetchVars, lookupVars,
                   progVars, manVars, barVars>>

\* semaphore <- struct{}{}: blocks while the channel is full; DownloadPackage
\* is called next.
Acquire(t) ==
    /\ tpc[t] = "spawned"
    /\ sem < GateSize(dConcurrency)
    /\ sem' = sem + 1
    /\ tpc' = [tpc EXCEPT ![t] = "downloading"]
    /\ UNCHANGED <<dDeps, dConcurrency, mpc, cpc, wg, resultsChan, errorsChan,
                   results, downloadErrors, outcome, dRet, resVars, dlVars, fetchVars, lookupVars,
                   progVars, manVars, barVars>>

\* DownloadPackage returns and its outcome is sent: the error, wrapped with the
\* dependency's name, to errorsChan, or the result to resultsChan.  Each
\* channel has room for every dependency, so the send does not block.
Deliver(t) ==
    /\ tpc[t] = "downloading"
    /\ \E ok \in BOOLEAN :
          /\ outcome' = [outcome EXCEPT ![t] = IF ok THEN "ok" ELSE "err"]
          /\ IF ok
             THEN /\ Len(resultsChan.buf) < Cardinality(dDeps)
                  /\ resultsChan' = [resultsChan EXCEPT !.buf = Append(@, t)]
                  /\ UNCHANGED errorsChan
             ELSE /\ Len(errorsChan.buf) < Cardinality(dDeps)
                  /\ errorsChan' = [errorsChan EXCEPT !.buf = Append(@, t)]
                  /\ UNCHANGED resultsChan
    /\ tpc' = [tpc EXCEPT ![t] = "delivered"]
    /\ UNCHANGED <<dDeps, dConcurrency, mpc, cpc, sem, wg,
                   results, downloadErrors, dRet, resVars, dlVars, fetchVars, lookupVars,
                   progVars, manVars, barVars>>

\* A goroutine that would return without the deferred receive from the
\* semaphore.
ReleaseKeepsSlot(t) ==
    /\ tpc[t] = "delivered"
    /\ tpc' = [tpc EXCEPT ![t] = "released"]
    /\ UNCHANGED <<dDeps, dConcurrency, mpc, cpc, sem, wg, resultsChan, errorsChan,
                   results, downloadErrors, outcome, dRet, resVars, dlVars,
                   fetchVars, lookupVars, progVars, manVars, barVars>>

\* The deferred receive from the semaphore.
Release(t) ==
    /\ tpc[t] = "delivered"
    /\ sem' = sem - 1
    /\ tpc' = [tpc EXCEPT ![t] = "released"]
    /\ UNCHANGED <<dDeps, dConcurrency, mpc, cpc, wg, resultsChan, errorsChan,
                   results, downloadErrors, outcome, dRet, resVars, dlVars, fetchVars, lookupVars,
                   progVars, manVars, barVars>>

\* The deferred wg.Done().
Done(t) ==
    /\ tpc[t] = "released"
    /\ wg' = wg - 1
    /\ tpc' = [tpc EXCEPT ![t] = "done"]
    /\ UNCHANGED <<dDeps, dConcurrency, mpc, cpc, sem, resultsChan, errorsChan,
                   results, downloadErrors, outcome, dRet, resVars, dlVars, fetchVars, lookupVars,
                   progVars, manVars, barVars>>

\* wg.Wait() returns when the counter is zero; close(resultsChan).
CloserWait ==
    /\ cpc = "waiting"
    /\ wg = 0
    /\ resultsChan' = [resultsChan EXCEPT !.closed = TRUE]
    /\ cpc' = "closing"
    /\ UNCHANGED <<dDeps, dConcurrency, mpc, tpc, sem, wg, errorsChan,
                   results, downloadErrors, outcome, dRet, resVars, dlVars, fetchVars, lookupVars,
                   progVars, manVars, barVars>>

\* close(errorsChan).
CloserClose ==
    /\ cpc = "closing"
    /\ errorsChan' = [errorsChan EXCEPT !.closed = TRUE]
    /\ cpc' = "done"
    /\ UNCHANGED <<dDeps, dConcurrency, mpc, tpc, sem, wg, resultsChan,
                   results, downloadErrors, outcome, dRet, resVars, dlVars, fetchVars, lookupVars,
                   progVars, manVars, barVars>>

\* A collector that would return at the first error it receives.
RecvErrorFailFast ==
    /\ mpc = "collectErrors"
    /\ errorsChan.buf # <<>>
    /\ errorsChan' = [errorsChan EXCEPT !.buf = Tail(@)]
    /\ downloadErrors' = Append(downloadErrors, Head(errorsChan.buf))
    /\ mpc' = "returned"
    /\ dRet' = [returned |-> TRUE, results |-> results, err |-> "some_failed",
                failures |-> downloadErrors']
    /\ UNCHANGED <<dDeps, dConcurrency, tpc, cpc, sem, wg, resultsChan,
                   results, outcome, resVars, dlVars, fetchVars, lookupVars, progVars,
                   manVars, barVars>>

\* for err := range errorsChan, one received error.
RecvError ==
    /\ mpc = "collectErrors"
    /\ errorsChan.buf # <<>>
    /\ errorsChan' = [errorsChan EXCEPT !.buf = Tail(@)]
    /\ downloadErrors' = Append(downloadErrors, Head(errorsChan.buf))
    /\ UNCHANGED <<dDeps, dConcurrency, mpc, tpc, cpc, sem, wg, resultsChan,
                   results, outcome, dRet, resVars, dlVars, fetchVars, lookupVars,
                   progVars, manVars, barVars>>

\* The range over errorsChan ends when the channel is closed and empty.
ErrorsDrained ==
    /\ mpc = "collectErrors"
    /\ errorsChan.buf = <<>>
    /\ errorsChan.closed
    /\ mpc' = "collectResults"
    /\ UNCHANGED <<dDeps, dConcurrency, tpc, cpc, sem, wg, resultsChan, errorsChan,
                   results, downloadErrors, outcome, dRet, resVars, dlVars, fetchVars, lookupVars,
                   progVars, manVars, barVars>>

\* A collector that would put each received result in front of the earlier
\* ones.
RecvResultPrepends ==
    /\ mpc = "collectResults"
    /\ resultsChan.buf # <<>>
    /\ resultsChan' = [resultsChan EXCEPT !.buf = Tail(@)]
    /\ results' = <<Head(resultsChan.buf)>> \o results
    /\ UNCHANGED <<dDeps, dConcurrency, mpc, tpc, cpc, sem, wg, errorsChan,
                   downloadErrors, outcome, dRet, resVars, dlVars, fetchVars,
                   lookupVars, progVars, manVars, barVars>>

\* for result := range resultsChan, one received result.
RecvResult ==
    /\ mpc = "collectResults"
    /\ resultsChan.buf # <<>>
    /\ resultsChan' = [resultsChan EXCEPT !.buf = Tail(@)]
    /\ results' = Append(results, Head(resultsChan.buf))
    /\ UNCHANGED <<dDeps, dConcurrency, mpc, tpc, cpc, sem, wg, errorsChan,
                   downloadErrors, outcome, dRet, resVars, dlVars, fetchVars, lookupVars,
                   progVars, manVars, barVars>>

\* A return that would give up the results when an error was collected.
DepReturnDiscards ==
    /\ mpc = "collectResults"
    /\ resultsChan.buf = <<>>
    /\ resultsChan.closed
    /\ mpc' = "returned"
    /\ dRet' = IF Len(downloadErrors) > 0
               THEN [returned |-> TRUE, results |-> <<>>, err |-> "some_failed",
                     failures |-> downloadErrors]
               ELSE [returned |-> TRUE, results |-> results, err |-> "nil",
                     failures |-> <<>>]
    /\ UNCHANGED <<dDeps, dConcurrency, tpc, cpc, sem, wg, resultsChan, errorsChan,
                   results, downloadErrors, outcome, resVars, dlVars, fetchVars, lookupVars,
                   progVars, manVars, barVars>>

\* The range over resultsChan ends and the call returns the results, with the
\* error that lists every collected failure when there is one.
DepReturn ==
    /\ mpc = "collectResults"
    /\ resultsChan.buf = <<>>
    /\ resultsChan.closed
    /\ mpc' = "returned"
    /\ dRet' = IF Len(downloadErrors) > 0
               THEN [returned |-> TRUE, results |-> results, err |-> "some_failed",
                     failures |-> downloadErrors]
               ELSE [returned |-> TRUE, results |-> results, err |-> "nil",
                     failures |-> <<>>]
    /\ UNCHANGED <<dDeps, dConcurrency, tpc, cpc, sem, wg, resultsChan, errorsChan,
                   results, downloadErrors, outcome, resVars, dlVars, fetchVars, lookupVars,
                   progVars, manVars, barVars>>

NextDependencies ==
    \/ DepMetadata
    \/ \E t \in DepNames : Spawn(t)
    \/ StartCloser
    \/ \E t \in DepNames : Acquire(t)
    \/ \E t \in DepNames : Deliver(t)
    \/ \E t \in DepNames : Release(t)
    \/ \E t \in DepNames : Done(t)
    \/ CloserWait
    \/ CloserClose
    \/ RecvError
    \/ ErrorsDrained
    \/ RecvResult
    \/ DepReturn

SpecDependencies == InitDependencies /\ [][NextDependencies]_vars


\* ---- Claims about DownloadDependencies, under SpecDependencies

\* The dependencies whose goroutine is inside DownloadPackage.
Inside == {t \in dDeps : tpc[t] = "downloading"}

\* The dependencies whose goroutine holds a slot of the gate.
Holding == {t \in dDeps : tpc[t] \in {"downloading", "delivered"}}

\* The limit the caller asked for: k when positive, else 3.
Limit == IF dConcurrency > 0 THEN dConcurrency ELSE 3

\* C6: with N dependencies and concurrency k, never more than k dependency
\* tasks are inside DownloadPackage at once, and a task enters DownloadPackage
\* only when fewer than k slots are held, so the tasks beyond k wait until a
\* slot is released; when the concurrency is not positive the limit is 3.
C6_ConcurrencyBound ==
    /\ [](Cardinality(Inside) <= Limit)
    /\ [][\A t \in dDeps :
             (tpc[t] = "spawned" /\ tpc'[t] = "downloading")
                => Cardinality(Holding) < Limit]_vars

\* Concurrency 2 with four dependencies: two are inside DownloadPackage, one
\* waits at the gate, and one has already finished and given its slot back.
C6_Witness ==
    /\ dConcurrency = 2
    /\ Cardinality(dDeps) = 4
    /\ Cardinality(Inside) = 2
    /\ \E t \in dDeps : tpc[t] = "spawned"
    /\ \E t \in dDeps : tpc[t] = "done"

\* The call returned after its dependencies were known.
DepsReturned == dRet.returned /\ dRet.err # "metadata"

\* How many times t occurs in the sequence s.
Occurrences(s, t) == Cardinality({i \in 1..Len(s) : s[i] = t})

\* C7: DownloadDependencies is best-effort: when it returns, every one of the
\* N dependency tasks has run its DownloadPackage call and finished, whatever
\* its siblings did, and each dependency is exactly once either among the
\* returned results or among the failures of the combined error, so the two
\* counts add up to N.
C7_BestEffort ==
    DepsReturned =>
        /\ \A t \in dDeps : tpc[t] = "done" /\ outcome[t] # "none"
        /\ Len(dRet.results) + Len(dRet.failures) = Cardinality(dDeps)
        /\ \A t \in dDeps :
              /\ Occurrences(dRet.results, t) = (IF outcome[t] = "ok" THEN 1 ELSE 0)
              /\ Occurrences(dRet.failures, t) = (IF outcome[t] = "err" THEN 1 ELSE 0)

\* A call that returned with failures and successes among three or more
\* dependencies.
C7_Witness ==
    /\ DepsReturned
    /\ Cardinality(dDeps) >= 3
    /\ Len(dRet.failures) >= 2
    /\ Len(dRet.results) >= 1

\* The dependencies whose DownloadPackage call failed.
Failed == {t \in dDeps : outcome[t] = "err"}

\* C8: when exactly one of several dependencies fails, the call returns the
\* results of all the others together with a non-nil error that describes that
\* one failure.
C8_PartialFailure ==
    (DepsReturned /\ Cardinality(dDeps) >= 2 /\ Cardinality(Failed) = 1) =>
        /\ {dRet.results[i] : i \in 1..Len(dRet.results)} = dDeps \ Failed
        /\ Len(dRet.results) = Cardinality(dDeps) - 1
        /\ dRet.err # "nil"
        /\ {dRet.failures[i] : i \in 1..Len(dRet.failures)} = Failed
        /\ Len(dRet.failures) = 1

\* A call with three or more dependencies returned after exactly one failed.
C8_Witness ==
    /\ DepsReturned
    /\ Cardinality(dDeps) >= 3
    /\ Cardinality(Failed) = 1
    /\ Len(dRet.results) = Cardinality(dDeps) - 1
    /\ dRet.err = "some_failed"

\* C26: the error returned when some but not all dependencies fail is only
\* ever returned together with a non-empty result list, so it is never the
\* error of a call in which every dependency failed.
C26_PartialFailureOnlyWithResults ==
    (DepsReturned /\ dRet.err = "some_failed") =>
        /\ Len(dRet.results) > 0
        /\ Failed # dDeps

\* C30: when the resolved version declares no dependencies,
\* DownloadDependencies returns an empty result list and no error, and it
\* has started no goroutine, touched neither the gate nor the channels, and
\* made no DownloadPackage call.
C30_NoDependenciesNoWork ==
    dDeps = {} =>
        /\ DepsReturned => dRet = [NoReturn EXCEPT !.returned = TRUE]
        /\ mpc \in {"start", "returned"}
        /\ \A t \in DepNames : tpc[t] = "none" /\ outcome[t] = "none"
        /\ cpc = "none"
        /\ sem = 0 /\ wg = 0
        /\ resultsChan = NoChan /\ errorsChan = NoChan

\* The call for a version without dependencies has returned the empty list.
C30_Witness ==
    /\ dDeps = {}
    /\ mpc = "returned"
    /\ dRet.returned /\ dRet.err = "nil" /\ dRet.results = <<>>

\* The larger of opts.Concurrency and the default.
MaxOfDefault ==
    IF dConcurrency > defaultConcurrency THEN dConcurrency ELSE defaultConcurrency

\* C24 as written: the gate is sized to max(opts.Concurrency, 3): a task that
\* stands at the gate can enter DownloadPackage exactly when fewer than that
\* many tasks hold a slot.
C24_GateSizedToMax ==
    \A t \in dDeps :
        tpc[t] = "spawned"
            => (ENABLED Acquire(t) <=> Cardinality(Holding) < MaxOfDefault)

\* C24 as amended: the gate is sized to opts.Concurrency when that is
\* positive and to the default of 3 when it is not: a task that stands at the
\* gate can enter DownloadPackage exactly when fewer than that many tasks hold
\* a slot, the slots held are the elements of the semaphore, and never more
\* than that many tasks are inside DownloadPackage.
C24_GateSizedToConcurrencyOrDefault ==
    /\ \A t \in dDeps :
          tpc[t] = "spawned"
              => (ENABLED Acquire(t) <=> Cardinality(Holding) < Limit)
    /\ sem = Cardinality(Holding)
    /\ Cardinality(Inside) <= Limit

\* Concurrency 0 with four dependencies: three are inside DownloadPackage and
\* the fourth stands at the gate.
C24_Witness ==
    /\ dConcurrency = 0
    /\ Cardinality(dDeps) = 4
    /\ Cardinality(Inside) = 3
    /\ \E t \in dDeps : tpc[t] = "spawned" /\ ~ENABLED Acquire(t)


(***************************************************************************)
(* internal/registry: GetPackageMetadata and fetchWithRetry                 *)
(***************************************************************************)

defaultRetires == 3

\* The values retryConfig.MaxRetries takes: the default, and smaller ones a
\* caller may set.
RetryInputs == 0..defaultRetires

\* MaxWaitTime of NewRegistryClient, a minute, in units of its RetryDelay, a
\* second.
defaultMaxWaitTime == 60

\* The values retryConfig.MaxWaitTime takes, in units of RetryDelay: the
\* default, and ones shorter than the waits of the later retries.
WaitTimeInputs == {1, 2, defaultMaxWaitTime}

\* What one httpClient.Get may come to: a transport error, or a response with
\* a status and a body that decodes as metadata or does not.
ResponseInputs ==
    {[transport |-> TRUE, status |-> 0, json |-> FALSE]}
    \cup {[transport |-> FALSE, status |-> s, json |-> FALSE] : s \in {200, 404, 429, 503}}
    \cup {[transport |-> FALSE, status |-> 200, json |-> TRUE]}

\* An error value: a *ZapError (zap) with its Type, or another error; cause
\* is what it wraps or is, and at the attempt that created it.
NoError == [zap |-> FALSE, Type |-> "nil", cause |-> "nil", at |-> 0]

\* errors.New(errType, message, err) on the given attempt.
New(errType, cause, at) == [zap |-> TRUE, Type |-> errType, cause |-> cause, at |-> at]

\* errors.Wrap(err, message): a ZapError keeps its Type and cause; any other
\* error becomes the cause of a ZapError of Type unknown.
Wrap(err) ==
    IF err = NoError THEN NoError
    ELSE IF err.zap THEN err
    ELSE [zap |-> TRUE, Type |-> "unknown", cause |-> err.cause, at |-> err.at]

\* The error one attempt records for a response, NoError when the response is
\* decoded: the transport error, rate_limited for 429, http_error for any
\* other status from 400 on, parse_error when the body does not decode.
AttemptError(resp, at) ==
    IF resp.transport
    THEN [zap |-> FALSE, Type |-> "", cause |-> "transport", at |-> at]
    ELSE IF resp.status = 429 THEN New("rate_limited", "nil", at)
    ELSE IF resp.status >= 400 THEN New("http_error", "nil", at)
    ELSE IF ~resp.json THEN New("parse_error", "decode", at)
    ELSE NoError

InitFetch ==
    /\ DownloadUnused
    /\ ResolveUnused
    /\ DependenciesUnused
    /\ LookupUnused
    /\ ProgressUnused
    /\ ManifestUnused
    /\ BarsUnused
    /\ fMaxRetries \in RetryInputs
    /\ fMaxWaitTime \in WaitTimeInputs
    /\ fpc = "loop"
    /\ fAttempt = 0
    /\ fLastErr = NoError
    /\ fRequests = <<>>
    /\ fWaits = <<>>
    /\ fRet = [returned |-> FALSE, ok |-> FALSE, err |-> NoError]

\* A loop that would give up at the first failed attempt.
FetchAttemptNoRetry ==
    /\ fpc = "loop"
    /\ fAttempt <= fMaxRetries
    /\ fWaits' = IF fAttempt > 0 THEN Append(fWaits, fAttempt) ELSE fWaits
    /\ \E resp \in ResponseInputs :
          LET e == AttemptError(resp, fAttempt + 1)
          IN  /\ fRequests' = Append(fRequests, resp)
              /\ fpc' = "returned"
              /\ fRet' = [returned |-> TRUE, ok |-> e = NoError, err |-> Wrap(e)]
              /\ UNCHANGED <<fLastErr, fAttempt>>
    /\ UNCHANGED <<fMaxRetries, fMaxWaitTime, resVars, dlVars, depVars, lookupVars, progVars,
                   manVars, barVars>>

\* A loop that would keep the first error it recorded.
FetchAttemptKeepsFirst ==
    /\ fpc = "loop"
    /\ fAttempt <= fMaxRetries
    /\ fWaits' = IF fAttempt > 0 THEN Append(fWaits, fAttempt) ELSE fWaits
    /\ \E resp \in ResponseInputs :
          LET e == AttemptError(resp, fAttempt + 1)
          IN  /\ fRequests' = Append(fRequests, resp)
              /\ IF e = NoError
                 THEN /\ fpc' = "returned"
                      /\ fRet' = [returned |-> TRUE, ok |-> TRUE, err |-> NoError]
                      /\ UNCHANGED <<fLastErr, fAttempt>>
                 ELSE /\ fLastErr' = IF fLastErr = NoError THEN e ELSE fLastErr
                      /\ fAttempt' = fAttempt + 1
                      /\ UNCHANGED <<fpc, fRet>>
    /\ UNCHANGED <<fMaxRetries, fMaxWaitTime, resVars, dlVars, depVars, lookupVars, progVars,
                   manVars, barVars>>

\* A loop that would not sleep longer than MaxWaitTime.
FetchAttemptCapsWait ==
    /\ fpc = "loop"
    /\ fAttempt <= fMaxRetries
    /\ fWaits' = IF fAttempt > 0
                 THEN Append(fWaits, IF fAttempt > fMaxWaitTime
                                     THEN fMaxWaitTime ELSE fAttempt)
                 ELSE fWaits
    /\ \E resp \in ResponseInputs :
          LET e == AttemptError(resp, fAttempt + 1)
          IN  /\ fRequests' = Append(fRequests, resp)
              /\ IF e = NoError
                 THEN /\ fpc' = "returned"
                      /\ fRet' = [returned |-> TRUE, ok |-> TRUE, err |-> NoError]
                      /\ UNCHANGED <<fLastErr, fAttempt>>
                 ELSE /\ fLastErr' = e
                      /\ fAttempt' = fAttempt + 1
                      /\ UNCHANGED <<fpc, fRet>>
    /\ UNCHANGED <<fMaxRetries, fMaxWaitTime, resVars, dlVars, depVars, lookupVars, progVars,
                   manVars, barVars>>

\* One pass of the loop of fetchWithRetry: the sleep of attempt times
\* RetryDelay before every attempt but the first, the request, and what
\* follows from the response: lastErr is set and the loop goes on, or the
\* body is decoded and GetPackageMetadata returns the metadata.
FetchAttempt ==
    /\ fpc = "loop"
    /\ fAttempt <= fMaxRetries
    /\ fWaits' = IF fAttempt > 0 THEN Append(fWaits, fAttempt) ELSE fWaits
    /\ \E resp \in ResponseInputs :
          LET e == AttemptError(resp, fAttempt + 1)
          IN  /\ fRequests' = Append(fRequests, resp)
              /\ IF e = NoError
                 THEN /\ fpc' = "returned"
                      /\ fRet' = [returned |-> TRUE, ok |-> TRUE, err |-> NoError]
                      /\ UNCHANGED <<fLastErr, fAttempt>>
                 ELSE /\ fLastErr' = e
                      /\ fAttempt' = fAttempt + 1
                      /\ UNCHANGED <<fpc, fRet>>
    /\ UNCHANGED <<fMaxRetries, fMaxWaitTime, resVars, dlVars, depVars, lookupVars, progVars,
                   manVars, barVars>>

\* The loop ends with attempt past MaxRetries: fetchWithRetry returns lastErr
\* and GetPackageMetadata returns it wrapped.
FetchExhausted ==
    /\ fpc = "loop"
    /\ fAttempt > fMaxRetries
    /\ fpc' = "returned"
    /\ fRet' = [returned |-> TRUE, ok |-> FALSE, err |-> Wrap(fLastErr)]
    /\ UNCHANGED <<fMaxRetries, fMaxWaitTime, fAttempt, fLastErr, fRequests, fWaits,
                   resVars, dlVars, depVars, lookupVars, progVars, manVars,
                   barVars>>

NextFetch == FetchAttempt \/ FetchExhausted

SpecFetch == InitFetch /\ [][NextFetch]_vars


\* ---- Claims about GetPackageMetadata, under SpecFetch

\* The response is one that is decoded as metadata.
Answered(resp) == ~resp.transport /\ resp.status < 400 /\ resp.json

\* C11: an endpoint that fails on its first j attempts and then answers with
\* valid metadata, j+1 being within the retry budget, gives a successful
\* GetPackageMetadata after exactly j+1 requests: the call does not give up
\* while attempts of the budget remain, the answered request is the last one
\* made, and the call has then returned the metadata.
C11_SuccessAfterFailures ==
    /\ \A i \in 1..Len(fRequests) :
          Answered(fRequests[i])
             => /\ i = Len(fRequests)
                /\ fpc = "returned" /\ fRet.ok /\ fRet.err = NoError
    /\ (fpc = "returned" /\ ~fRet.ok) => Len(fRequests) >= fMaxRetries
    /\ (fpc = "loop" /\ Len(fRequests) < fMaxRetries) => ENABLED FetchAttempt

\* Two failures and then an answer: three requests, and the call succeeded.
C11_Witness ==
    /\ fMaxRetries = defaultRetires
    /\ fpc = "returned" /\ fRet.ok
    /\ Len(fRequests) = 3
    /\ fRequests[1].status = 503 /\ fRequests[2].status = 503
    /\ Answered(fRequests[3])

\* C12: against an endpoint that fails on every attempt, GetPackageMetadata
\* issues no more than MaxRetries requests in total and then fails.
C12_AtMostMaxRetriesRequests ==
    (\A i \in 1..Len(fRequests) : ~Answered(fRequests[i]))
       => /\ Len(fRequests) <= fMaxRetries
          /\ fpc = "returned" => (~fRet.ok /\ fRet.err # NoError)

\* The kind the claim gives the error of a failed attempt.
KindOf(resp) ==
    IF resp.transport THEN "transport"
    ELSE IF resp.status = 429 THEN "rate_limited"
    ELSE IF resp.status >= 400 THEN "http_error"
    ELSE "parse_error"

\* C13: when every attempt fails, the error returned is the one recorded on
\* the final attempt: rate_limited for a 429, http_error for any other status
\* from 400 on, parse_error for a body that does not decode, and otherwise
\* the transport error; a failure of any of the four kinds takes one attempt
\* and the loop goes on the same way.
C13_LastErrorReturned ==
    /\ fpc = "loop" => fAttempt = Len(fRequests)
    /\ (fpc = "returned" /\ ~fRet.ok) =>
          LET n == Len(fRequests)
              k == KindOf(fRequests[n])
          IN  /\ n = fMaxRetries + 1
              /\ fRet.err.at = n
              /\ IF k = "transport"
                 THEN fRet.err.cause = "transport"
                 ELSE fRet.err.Type = k

\* Four failed attempts of four kinds; the error of the last one came back.
C13_Witness ==
    /\ fpc = "returned" /\ ~fRet.ok
    /\ Len(fRequests) = 4
    /\ fRequests[1].status = 429
    /\ fRequests[2].transport
    /\ fRequests[3].status = 200
    /\ fRequests[4].status = 404
    /\ fRet.err.Type = "http_error" /\ fRet.err.at = 4


LookupRetries == 1

\* The constraint arguments: exact versions that are and are not published,
\* one padded with a space, ranges that match and do not, and strings that
\* are neither.
LookupArgs ==
    {V100, V900, V120 \o <<" ">>, <<"^">> \o V100, <<">">> \o V900,
     <<"b", "a", "d">>, Latest, <<>>}

\* What the registry may publish: the keys of versions, and dist-tags with or
\* without latest.
LookupKeys == {V100, V120, V12}

LookupTags ==
    {[has |-> FALSE, tag |-> <<>>]}
    \cup {[has |-> TRUE, tag |-> v] : v \in {V120, V900, <<"^">> \o V100}}

NoLookupReturn == [returned |-> FALSE, err |-> "nil", info |-> <<>>]

FetchIdle ==
    /\ fpc = "idle" /\ fAttempt = 0 /\ fLastErr = NoError /\ fRequests = <<>>
    /\ fWaits = <<>> /\ fRet = [returned |-> FALSE, ok |-> FALSE, err |-> NoError]

InitLookup ==
    /\ DownloadUnused
    /\ ResolveUnused
    /\ DependenciesUnused
    /\ ProgressUnused
    /\ ManifestUnused
    /\ BarsUnused
    /\ fMaxRetries = LookupRetries
    /\ fMaxWaitTime = defaultMaxWaitTime
    /\ FetchIdle
    /\ lOp \in {"GetPackageVersion", "GetLatestVersion"}
    /\ lArg \in (IF lOp = "GetLatestVersion" THEN {<<>>} ELSE LookupArgs)
    /\ lpc = (IF lOp = "GetLatestVersion" THEN "latest" ELSE "resolve")
    /\ lMeta \in [versions : SUBSET LookupKeys, latest : LookupTags]
    /\ lChanged = FALSE
    /\ lLog = <<>>
    /\ lVersion = <<>>
    /\ lRet = NoLookupReturn

\* c.GetPackageMetadata(name) is called: its loop starts.
BeginFetch ==
    /\ fpc' = "loop"
    /\ fAttempt' = 0
    /\ fLastErr' = NoError
    /\ fRequests' = <<>>
    /\ fWaits' = <<>>
    /\ fRet' = [returned |-> FALSE, ok |-> FALSE, err |-> NoError]
    /\ UNCHANGED <<fMaxRetries, fMaxWaitTime>>

\* c.GetPackageMetadata(name) has returned: the call is logged.
EndFetch ==
    /\ fpc' = "idle"
    /\ fAttempt' = 0
    /\ fLastErr' = NoError
    /\ fRequests' = <<>>
    /\ fWaits' = <<>>
    /\ fRet' = [returned |-> FALSE, ok |-> FALSE, err |-> NoError]
    /\ lLog' = Append(lLog, [ok |-> fRet.ok, requests |-> Len(fRequests)])
    /\ UNCHANGED <<fMaxRetries, fMaxWaitTime>>

\* The call returns.
LookupReturn(err, info) ==
    /\ lpc' = "returned"
    /\ lRet' = [returned |-> TRUE, err |-> err, info |-> info]

\* GetLatestVersion: c.GetPackageMetadata(name).
LatestStart ==
    /\ lpc = "latest"
    /\ BeginFetch
    /\ lpc' = "latestFetch"
    /\ UNCHANGED <<lOp, lArg, lMeta, lChanged, lLog, lVersion, lRet,
                   resVars, dlVars, depVars, progVars, manVars, barVars>>

\* GetLatestVersion as it would be if it fell back to the highest published
\* version when dist-tags has no latest.
LatestFetchedFallsBack ==
    /\ lpc = "latestFetch"
    /\ fpc = "returned"
    /\ EndFetch
    /\ IF ~fRet.ok
       THEN LookupReturn("metadata", <<>>) /\ UNCHANGED lArg
       ELSE /\ lArg' = (IF lMeta.latest.has THEN lMeta.latest.tag ELSE <<"*">>)
            /\ lpc' = "resolve"
            /\ UNCHANGED lRet
    /\ UNCHANGED <<lOp, lMeta, lChanged, lVersion, resVars, dlVars, depVars, progVars, manVars,
                   barVars>>

\* GetLatestVersion after its fetch: the error, latest_version_not_found when
\* dist-tags has no latest, or GetPackageVersion(name, latestVersion).
LatestFetched ==
    /\ lpc = "latestFetch"
    /\ fpc = "returned"
    /\ EndFetch
    /\ IF ~fRet.ok
       THEN LookupReturn("metadata", <<>>) /\ UNCHANGED lArg
       ELSE IF ~lMeta.latest.has
       THEN LookupReturn("latest_version_not_found", <<>>) /\ UNCHANGED lArg
       ELSE /\ lArg' = lMeta.latest.tag
            /\ lpc' = "resolve"
            /\ UNCHANGED lRet
    /\ UNCHANGED <<lOp, lMeta, lChanged, lVersion, resVars, dlVars, depVars, progVars, manVars,
                   barVars>>

\* GetPackageVersion, c.resolveVersion(name, versionConstraint): an exact
\* version is returned as it is; for anything else the metadata is fetched.
ResolveStart ==
    /\ lpc = "resolve"
    /\ IF isExactVersion(lArg)
       THEN /\ lVersion' = lArg
            /\ lpc' = "lookup"
            /\ UNCHANGED fetchVars
       ELSE /\ BeginFetch
            /\ lpc' = "resolveFetch"
            /\ UNCHANGED lVersion
    /\ UNCHANGED <<lOp, lArg, lMeta, lChanged, lLog, lRet, resVars, dlVars, depVars, progVars,
                   manVars, barVars>>

\* resolveVersion as it would be if it fetched the metadata again after a
\* failure to resolve.
ResolveFetchedRetries ==
    /\ lpc = "resolveFetch"
    /\ fpc = "returned"
    /\ \E r \in resolveVersion(lArg, [ok |-> fRet.ok, versions |-> lMeta.versions]) :
          IF r.err = "nil"
          THEN /\ EndFetch
               /\ lVersion' = r.version
               /\ lpc' = "lookup"
               /\ UNCHANGED lRet
          ELSE IF Len(lLog) < 2
          THEN /\ BeginFetch
               /\ lLog' = Append(lLog, [ok |-> fRet.ok, requests |-> Len(fRequests)])
               /\ UNCHANGED <<lVersion, lpc, lRet>>
          ELSE /\ EndFetch
               /\ LookupReturn(r.err, <<>>)
               /\ UNCHANGED lVersion
    /\ UNCHANGED <<lOp, lArg, lMeta, lChanged, resVars, dlVars, depVars, progVars, manVars,
                   barVars>>

\* resolveVersion after its fetch: the fetch's error, or the constraint is
\* parsed and the published keys are searched; GetPackageVersion returns the
\* error or goes on with the resolved version.
ResolveFetched ==
    /\ lpc = "resolveFetch"
    /\ fpc = "returned"
    /\ EndFetch
    /\ \E r \in resolveVersion(lArg, [ok |-> fRet.ok, versions |-> lMeta.versions]) :
          IF r.err = "nil"
          THEN /\ lVersion' = r.version
               /\ lpc' = "lookup"
               /\ UNCHANGED lRet
          ELSE /\ LookupReturn(r.err, <<>>)
               /\ UNCHANGED lVersion
    /\ UNCHANGED <<lOp, lArg, lMeta, lChanged, resVars, dlVars, depVars, progVars, manVars,
                   barVars>>

\* GetPackageVersion, c.GetPackageMetadata(name) after the resolution.
LookupStart ==
    /\ lpc = "lookup"
    /\ BeginFetch
    /\ lpc' = "lookupFetch"
    /\ UNCHANGED <<lOp, lArg, lMeta, lChanged, lLog, lVersion, lRet,
                   resVars, dlVars, depVars, progVars, manVars, barVars>>

\* GetPackageVersion as it would be if it trusted the resolution and did not
\* look the version up in the metadata it fetched again.
LookupFetchedUnchecked ==
    /\ lpc = "lookupFetch"
    /\ fpc = "returned"
    /\ EndFetch
    /\ IF ~fRet.ok
       THEN LookupReturn("metadata", <<>>)
       ELSE LookupReturn("nil", lVersion)
    /\ UNCHANGED <<lOp, lArg, lMeta, lChanged, lVersion, resVars, dlVars, depVars, progVars,
                   manVars, barVars>>

\* GetPackageVersion after that fetch: the error, version_not_found when the
\* resolved version is no key of versions, or the VersionInfo under the key.
LookupFetched ==
    /\ lpc = "lookupFetch"
    /\ fpc = "returned"
    /\ EndFetch
    /\ IF ~fRet.ok
       THEN LookupReturn("metadata", <<>>)
       ELSE IF lVersion \notin lMeta.versions
       THEN LookupReturn("version_not_found", <<>>)
       ELSE LookupReturn("nil", lVersion)
    /\ UNCHANGED <<lOp, lArg, lMeta, lChanged, lVersion, resVars, dlVars, depVars, progVars,
                   manVars, barVars>>

\* The registry unpublishes a version between two metadata fetches of the
\* call.
RegistryChange ==
    /\ lpc \in {"resolve", "lookup"}
    /\ ~lChanged
    /\ \E k \in lMeta.versions :
          lMeta' = [lMeta EXCEPT !.versions = @ \ {k}]
    /\ lChanged' = TRUE
    /\ UNCHANGED <<lOp, lArg, lpc, lLog, lVersion, lRet, fetchVars,
                   resVars, dlVars, depVars, progVars, manVars, barVars>>

NextLookup ==
    \/ LatestStart
    \/ LatestFetched
    \/ ResolveStart
    \/ ResolveFetched
    \/ LookupStart
    \/ LookupFetched
    \/ RegistryChange
    \/ FetchAttempt
    \/ FetchExhausted

SpecLookup == InitLookup /\ [][NextLookup]_vars


\* ---- Claims about the lookups, under SpecLookup

\* The failures of the resolution layer.
ResolutionErrors ==
    {"invalid_constraint", "no_matching_version", "version_not_found",
     "latest_version_not_found"}

\* The GetPackageMetadata calls a lookup that ends in the given failure needs.
FetchesNeeded(op, arg, err) ==
    (IF op = "GetLatestVersion" THEN 1 ELSE 0)
    + (IF err = "latest_version_not_found" THEN 0
       ELSE IF err \in {"invalid_constraint", "no_matching_version"} THEN 1
       ELSE IF isExactVersion(arg) THEN 1 ELSE 2)

\* C14: a failure of the resolution layer (invalid constraint, no matching
\* version, version not found, latest tag not found) is never retried: when
\* the call returns it, every metadata fetch it made had succeeded, it made
\* only the fetches that lead to the failure, and no request is under way or
\* follows.
C14_ResolutionFailuresNotRetried ==
    /\ [](lpc = "returned" /\ lRet.err \in ResolutionErrors
            => /\ \A i \in 1..Len(lLog) : lLog[i].ok
               /\ Len(lLog) = FetchesNeeded(lOp, lArg, lRet.err)
               /\ fpc = "idle" /\ fRequests = <<>>)
    /\ [][lpc = "returned" => UNCHANGED <<fetchVars, lLog, progVars, manVars, barVars>>]_vars

\* GetLatestVersion whose latest tag names a range no key satisfies: two
\* fetches, the second one answered at its second request, and the failure.
C14_Witness ==
    /\ lOp = "GetLatestVersion"
    /\ lpc = "returned"
    /\ lRet.err = "no_matching_version"
    /\ Len(lLog) = 2
    /\ lLog[2] = [ok |-> TRUE, requests |-> 2]

\* C21: GetPackageVersion with a range constraint fetches the metadata twice,
\* once to resolve and once to look up (once only when the resolution fails);
\* when the resolved version is no longer published at the second fetch the
\* call fails with version_not_found, and what it returns on success is the
\* entry stored under the resolved version, which satisfies the constraint.
C21_RangeLookupFetchesTwice ==
    (lpc = "returned" /\ lOp = "GetPackageVersion" /\ ~isExactVersion(lArg)) =>
        /\ Len(lLog) = (IF lVersion # <<>> THEN 2 ELSE 1)
        /\ (Len(lLog) = 2 /\ lLog[2].ok /\ lVersion \notin lMeta.versions)
              => lRet = [returned |-> TRUE, err |-> "version_not_found", info |-> <<>>]
        /\ lRet.err = "nil"
              => /\ lRet.info = lVersion
                 /\ lVersion \in lMeta.versions
                 /\ Check(NewConstraint(lArg), NewVersion(lVersion))

\* ^1.0.0 was resolved to 1.0.0, the only version published; the registry
\* removed it before the second fetch, and the call failed.
C21_Witness ==
    /\ lpc = "returned"
    /\ lOp = "GetPackageVersion"
    /\ lArg = <<"^">> \o V100
    /\ lVersion = V100
    /\ lChanged
    /\ lMeta.versions = {}
    /\ Len(lLog) = 2 /\ lLog[2].ok
    /\ lRet.err = "version_not_found"

\* C22: GetLatestVersion whose metadata fetches succeed fails with
\* latest_version_not_found when dist-tags has no latest; when latest names a
\* version it returns the entry stored in versions under that version, and
\* fails with version_not_found when that version is not published.
C22_LatestLookup ==
    (/\ lpc = "returned"
     /\ lOp = "GetLatestVersion"
     /\ \A i \in 1..Len(lLog) : lLog[i].ok) =>
        IF ~lMeta.latest.has
        THEN /\ lRet = [returned |-> TRUE, err |-> "latest_version_not_found",
                        info |-> <<>>]
             /\ Len(lLog) = 1
        ELSE isExactVersion(lMeta.latest.tag) =>
                IF lMeta.latest.tag \in lMeta.versions
                THEN lRet = [returned |-> TRUE, err |-> "nil",
                             info |-> lMeta.latest.tag]
                ELSE lRet = [returned |-> TRUE, err |-> "version_not_found",
                             info |-> <<>>]

\* latest is 1.2.0 with 1.0.0 and 1.2.0 published: the entry for 1.2.0 is
\* returned after two fetches.
C22_Witness ==
    /\ lpc = "returned"
    /\ lOp = "GetLatestVersion"
    /\ lMeta.latest = [has |-> TRUE, tag |-> V120]
    /\ lMeta.versions = {V100, V120}
    /\ Len(lLog) = 2
    /\ lRet = [returned |-> TRUE, err |-> "nil", info |-> V120]

\* ---- A claim about resolveVersion, under SpecResolve

\* C20 as written: whenever resolveVersion succeeds, the string it returns is
\* a key of the versions mapping of the package's metadata.
C20_ReturnsPublishedKey ==
    (rpc = "done" /\ rResult.err = "nil" /\ rRegistry.ok)
        => rResult.version \in rRegistry.versions

\* The key is written the way Version.String writes it.
Canonical(k) == NewVersion(k).ok /\ String(NewVersion(k)) = k

\* C20 as amended: when resolveVersion succeeds on a constraint that is not
\* an exact version, the string it returns is the canonical form of a
\* parsable key of versions that satisfies the constraint, and is itself a
\* key (so that a lookup in the same metadata finds it) when that key is
\* written in canonical form; on an exact version it returns the constraint
\* as given, whether or not it is a key.
C20_ReturnsCanonicalFormOfKey ==
    (rpc = "done" /\ rResult.err = "nil")
        => IF isExactVersion(rConstraint)
           THEN rResult.version = rConstraint
           ELSE /\ rRegistry.ok
                /\ \E k \in rRegistry.versions :
                      /\ NewVersion(k).ok
                      /\ Check(NewConstraint(rConstraint), NewVersion(k))
                      /\ rResult.version = String(NewVersion(k))
                      /\ Canonical(k) => rResult.version \in rRegistry.versions

\* A range resolved to a key in canonical form although a higher key (1.2)
\* is not satisfying it.
C20_Witness ==
    /\ rpc = "done"
    /\ rConstraint = <<"<">> \o V120
    /\ rRegistry.ok
    /\ rRegistry.versions = {V100, V12, V200}
    /\ rResult = [err |-> "nil", version |-> V100]

\* C23: resolveVersion fails with the invalid-constraint error whenever the
\* constraint is not an exact version and does not parse as a range
\* expression, whatever the registry answers for the package.
C23_InvalidConstraintWhateverRegistry ==
    (/\ rpc = "done"
     /\ ~isExactVersion(rConstraint)
     /\ ~NewConstraint(rConstraint).ok) => rResult.err = "invalid_constraint"

(***************************************************************************)
(* internal/downloader: ProgressBar, its counter under concurrent Add calls *)
(* (TestConcurrentAccess: goroutines that call Add, and a Current() after   *)
(* they have finished)                                                      *)
(***************************************************************************)

\* Goroutines that call Add on the one bar.
NumAdders == 3

\* Add calls each of them makes.
AddsEach == 2

\* The largest n passed to Add.
MaxAdd == 2

Adders == 1..NumAdders

AddInputs == 1..MaxAdd

NoRead == [value |-> 0, final |-> FALSE]

\* NewProgressBar: current is zero; no goroutine has added anything.
InitProgress ==
    /\ DownloadUnused
    /\ ResolveUnused
    /\ DependenciesUnused
    /\ FetchUnused
    /\ LookupUnused
    /\ ManifestUnused
    /\ BarsUnused
    /\ bCurrent = 0
    /\ bLeft = [g \in Adders |-> AddsEach]
    /\ bSum = 0
    /\ bRead = NoRead

\* Add as it would be if it wrote back a value of the counter loaded earlier
\* plus n, instead of adding in one atomic step.
AddFromEarlierLoad(g) ==
    /\ bLeft[g] > 0
    /\ \E n \in AddInputs :
          /\ bCurrent' = bRead.value + n
          /\ bSum' = bSum + n
    /\ bLeft' = [bLeft EXCEPT ![g] = @ - 1]
    /\ UNCHANGED <<bRead, resVars, dlVars, depVars, fetchVars, lookupVars, manVars, barVars>>

\* p.Add(n): atomic.AddInt64(&p.current, n), one indivisible step.  (The
\* counter is an int64; the sums here stay far from its limits.)
Add(g) ==
    /\ bLeft[g] > 0
    /\ \E n \in AddInputs :
          /\ bCurrent' = bCurrent + n
          /\ bSum' = bSum + n
    /\ bLeft' = [bLeft EXCEPT ![g] = @ - 1]
    /\ UNCHANGED <<bRead, resVars, dlVars, depVars, fetchVars, lookupVars, manVars, barVars>>

\* p.Current(): atomic.LoadInt64(&p.current), at any moment.
Current ==
    /\ bRead' = [value |-> bCurrent, final |-> \A g \in Adders : bLeft[g] = 0]
    /\ UNCHANGED <<bCurrent, bLeft, bSum, resVars, dlVars, depVars, fetchVars,
                   lookupVars, manVars, barVars>>

NextProgress ==
    \/ \E g \in Adders : Add(g)
    \/ Current

SpecProgress == InitProgress /\ [][NextProgress]_vars


\* ---- A claim about the ProgressBar, under SpecProgress

\* C28: after any interleaving of concurrent Add calls on one ProgressBar the
\* counter is the sum of all n added, and a Current() made after the calls
\* have finished returns that sum: no update is lost.
C28_NoLostUpdate ==
    /\ bCurrent = bSum
    /\ bRead.final => bRead.value = bSum

\* Every goroutine has made its calls, with different n among them, and a
\* Current() after that returned their sum.
C28_Witness ==
    /\ \A g \in Adders : bLeft[g] = 0
    /\ bRead.final
    /\ bRead.value = bSum
    /\ bSum > NumAdders * AddsEach
    /\ bSum < NumAdders * AddsEach * MaxAdd


(***************************************************************************)
(* internal/parser: Validate and WriteToFile                               *)
(***************************************************************************)

LowerCase == {"a", "b", "c", "d", "e", "f", "g", "h", "i", "j", "k", "l", "m",
              "n", "o", "p", "q", "r", "s", "t", "u", "v", "w", "x", "y", "z"}

UpperCase == {"A", "B", "C", "D", "E", "F", "G", "H", "I", "J", "K", "L", "M",
              "N", "O", "P", "Q", "R", "S", "T", "U", "V", "W", "X", "Y", "Z"}

\* The longest name validateName accepts.
MaxNameLen == 214

\* [a-z0-9-*~] and [a-z0-9-*._~]: the first and the later characters of a scope.
ScopeFirst(c) == c \in LowerCase \/ IsDigit(c) \/ c \in {"-", "*", "~"}

ScopeRest(c) == ScopeFirst(c) \/ c \in {".", "_"}

\* [a-z0-9-~] and [a-z0-9-._~]: the first and the later characters of a name.
NameFirst(c) == c \in LowerCase \/ IsDigit(c) \/ c \in {"-", "~"}

NameRest(c) == NameFirst(c) \/ c \in {".", "_"}

\* [a-z0-9-~][a-z0-9-._~]*
MatchBareName(s) ==
    /\ s # <<>>
    /\ NameFirst(s[1])
    /\ \A i \in 2..Len(s) : NameRest(s[i])

\* ^(?:@[a-z0-9-*~][a-z0-9-*._~]*\/)?[a-z0-9-~][a-z0-9-._~]*$
MatchName(s) ==
    IF s # <<>> /\ s[1] = "@"
    THEN LET slash == IndexAny(s, {"/"})
         IN  /\ slash >= 3
             /\ ScopeFirst(s[2])
             /\ \A i \in 3..(slash - 1) : ScopeRest(s[i])
             /\ MatchBareName(Drop(s, slash))
    ELSE MatchBareName(s)

\* validateName: the message of the error, "" for nil.
validateName(name) ==
    IF name = <<>> THEN "name cannot be empty"
    ELSE IF Len(name) > MaxNameLen THEN "name too long (max 214 chars)"
    ELSE IF ~MatchName(name) THEN "invalid package name format"
    ELSE ""

\* 0|[1-9]\d*
NumericId(s) == AllDigits(s) /\ (Len(s) = 1 \/ s[1] # "0")

\* [0-9a-zA-Z-]+
AlnumId(s) ==
    /\ s # <<>>
    /\ \A i \in 1..Len(s) :
          IsDigit(s[i]) \/ s[i] \in LowerCase \/ s[i] \in UpperCase \/ s[i] = "-"

\* 0|[1-9]\d*|\d*[a-zA-Z-][0-9a-zA-Z-]*
PreId(s) == AlnumId(s) /\ (AllDigits(s) => NumericId(s))

\* id(\.id)* with the identifiers of a prerelease
DottedPreIds(s) ==
    LET parts == Split(s, ".") IN \A i \in 1..Len(parts) : PreId(parts[i])

\* id(\.id)* with the identifiers of build metadata
DottedAlnumIds(s) ==
    LET parts == Split(s, ".") IN \A i \in 1..Len(parts) : AlnumId(parts[i])

\* The semver pattern of validateVersion: N.N.N(-pre)?(+build)?
MatchVersion(s) ==
    LET cut   == IndexAny(s, {"-", "+"})
        core  == IF cut = 0 THEN s ELSE Take(s, cut - 1)
        rest  == IF cut = 0 THEN <<>> ELSE Drop(s, cut - 1)
        nums  == Split(core, ".")
        tail  == IF rest = <<>> THEN <<>> ELSE Tail(rest)
        plus  == IndexAny(tail, {"+"})
        pre   == IF plus = 0 THEN tail ELSE Take(tail, plus - 1)
        build == IF plus = 0 THEN <<>> ELSE Drop(tail, plus)
    IN  /\ Len(nums) = 3
        /\ \A i \in 1..3 : NumericId(nums[i])
        /\ \/ rest = <<>>
           \/ Head(rest) = "+" /\ DottedAlnumIds(tail)
           \/ /\ Head(rest) = "-"
              /\ DottedPreIds(pre)
              /\ plus = 0 \/ DottedAlnumIds(build)

\* validateVersion
validateVersion(version) ==
    IF version = <<>> THEN "version cannot be empty"
    ELSE IF ~MatchVersion(version) THEN "invalid version format (must be semver)"
    ELSE ""

\* [0-9]+\.[0-9]+\.[0-9]+
ThreeNumbers(s) ==
    LET nums == Split(s, ".")
    IN  Len(nums) = 3 /\ \A i \in 1..3 : AllDigits(nums[i])

\* ^([\^~]?N.N.N|latest|[*]|>=N.N.N|file:.*|git\+https:\/\/.*)$
MatchDependency(s) ==
    \/ ThreeNumbers(s)
    \/ s # <<>> /\ Head(s) \in {"^", "~"} /\ ThreeNumbers(Tail(s))
    \/ s = <<"l", "a", "t", "e", "s", "t">>
    \/ s = <<"*">>
    \/ HasPrefix(s, <<">", "=">>) /\ ThreeNumbers(Drop(s, 2))
    \/ HasPrefix(s, <<"f", "i", "l", "e", ":">>)
    \/ HasPrefix(s, <<"g", "i", "t", "+", "h", "t", "t", "p", "s", ":", "/", "/">>)

\* validateDependency: the two messages carry the dependency's name.
validateDependency(name, version) ==
    IF TrimSpace(version) = <<>>
    THEN [text |-> "version for dependency '%s' cannot be empty", dep |-> name]
    ELSE IF ~MatchDependency(version)
    THEN [text |-> "invalid version format for dependency '%s'", dep |-> name]
    ELSE [text |-> "", dep |-> name]

NoDep == ""

Message(text) == [text |-> text, dep |-> NoDep]

\* The ValidationErrors of the dependencies, in the order in which the range
\* over the map visits the names in the sequence order.
RECURSIVE DependencyErrors(_, _)
DependencyErrors(deps, order) ==
    IF order = <<>> THEN <<>>
    ELSE LET e == validateDependency(Head(order), deps[Head(order)])
         IN  (IF e.text # "" THEN <<e>> ELSE <<>>)
                 \o DependencyErrors(deps, Tail(order))

\* p.Validate() when the map is ranged over in the given order: the name's
\* error, the version's, then the dependencies'.  DevDependencies are not
\* looked at.
Validate(p, order) ==
    (IF validateName(p.Name) # "" THEN <<Message(validateName(p.Name))>> ELSE <<>>)
        \o (IF validateVersion(p.Version) # ""
            THEN <<Message(validateVersion(p.Version))>> ELSE <<>>)
        \o DependencyErrors(p.Dependencies, order)

\* The orders in which a range over a map may visit its keys: all of them.
Orders(keys) ==
    {o \in [1..Cardinality(keys) -> keys] :
        \A i, j \in 1..Cardinality(keys) : i # j => o[i] # o[j]}

\* ---- The inputs

LongName(n) == [i \in 1..n |-> "a"]

NameInputs ==
    { <<>>,
      <<"m", "y", "-", "a", "p", "p">>,
      <<"@", "s", "/", "p">>,
      <<"@", "/", "p">>,
      <<"I", "n", "v", "a", "l", "i", "d", " ", "N", "a", "m", "e">>,
      <<".", "a">>,
      LongName(MaxNameLen),
      LongName(MaxNameLen + 1) }

VersionInputs ==
    { <<>>,
      <<"1", ".", "0", ".", "0">>,
      <<"1", ".", "0">>,
      <<"0", "1", ".", "0", ".", "0">>,
      <<"v", "1", ".", "0", ".", "0">>,
      <<"1", ".", "0", ".", "0", "-", "r", "c", ".", "1", "+", "b", "7">>,
      <<"1", ".", "0", ".", "0", "-", "0", "1">> }

DependencyInputs ==
    { <<>>,
      <<" ">>,
      <<"^", "4", ".", "1", "7", ".", "1">>,
      <<"1", ".", "0">>,
      <<"l", "a", "t", "e", "s", "t">>,
      <<">", "=", "1", ".", "0", ".", "0">>,
      <<"f", "i", "l", "e", ":", ".">> }

DependencyNames == {"express", "lodash"}

\* Dependencies: a map from some names to version strings.
DependencyMaps ==
    UNION {[ks -> DependencyInputs] : ks \in SUBSET DependencyNames}

\* What is at a path: no file, or a file with its bytes.
Absent == [exists |-> FALSE, data |-> <<>>]

FileWith(data) == [exists |-> TRUE, data |-> data]

\* json.MarshalIndent(p, "", "  "): the bytes that encode p.
MarshalIndent(p) == <<[json |-> p]>>

FileInputs ==
    {Absent, FileWith(MarshalIndent([Name |-> <<"o", "l", "d">>,
                                     Version |-> <<"0", ".", "0", ".", "1">>,
                                     Dependencies |-> [k \in {} |-> <<>>]]))}

NotReturned == [returned |-> FALSE, err |-> Message("")]

Returned(e) == [returned |-> TRUE, err |-> e]

InitManifest ==
    /\ DownloadUnused
    /\ ResolveUnused
    /\ DependenciesUnused
    /\ FetchUnused
    /\ LookupUnused
    /\ ProgressUnused
    /\ BarsUnused
    /\ wPkg \in [Name : NameInputs, Version : VersionInputs,
                 Dependencies : DependencyMaps]
    /\ wFile \in FileInputs
    /\ wRet = NotReturned

\* WriteToFile as in the first version of the parser: no Validate call before
\* the file is written.
WriteToFileUnvalidated ==
    /\ ~wRet.returned
    /\ \/ /\ wFile' = FileWith(MarshalIndent(wPkg))
          /\ wRet' = Returned(Message(""))
       \/ /\ wFile' \in {wFile, FileWith(<<>>)}
          /\ wRet' = Returned(Message("failed to write package.json"))
    /\ UNCHANGED <<wPkg, resVars, dlVars, depVars, fetchVars, lookupVars,
                   progVars, barVars>>

\* p.WriteToFile(filename): Validate first and return errs[0].Message when
\* there is an error; else marshal and os.WriteFile, which either writes the
\* bytes or fails, leaving the file as it was (it could not be opened) or
\* empty (it was opened, hence truncated, and the write failed).
WriteToFile ==
    /\ ~wRet.returned
    /\ \E order \in Orders(DOMAIN wPkg.Dependencies) :
          LET errs == Validate(wPkg, order)
          IN  IF Len(errs) > 0
              THEN /\ wRet' = Returned(errs[1])
                   /\ UNCHANGED wFile
              ELSE \/ /\ wFile' = FileWith(MarshalIndent(wPkg))
                      /\ wRet' = Returned(Message(""))
                   \/ /\ wFile' \in {wFile, FileWith(<<>>)}
                      /\ wRet' = Returned(Message("failed to write package.json"))
    /\ UNCHANGED <<wPkg, resVars, dlVars, depVars, fetchVars, lookupVars,
                   progVars, barVars>>

NextManifest == WriteToFile

SpecManifest == InitManifest /\ [][NextManifest]_vars


\* ---- A claim about WriteToFile, under SpecManifest

\* The violations Validate can report first for p: the name's when the name
\* is invalid, else the version's, else that of any invalid dependency (the
\* map has no order).
FirstViolations(p) ==
    IF validateName(p.Name) # "" THEN {Message(validateName(p.Name))}
    ELSE IF validateVersion(p.Version) # ""
    THEN {Message(validateVersion(p.Version))}
    ELSE {validateDependency(d, p.Dependencies[d]) : d \in DOMAIN p.Dependencies}
             \ {[text |-> "", dep |-> d] : d \in DOMAIN p.Dependencies}

C32_OneCallPerEntry ==
    /\ [][\A t \in DepNames :
            (tpc[t] # "downloading" /\ tpc'[t] = "downloading")
                => t \in dDeps /\ tpc[t] = "spawned" /\ outcome[t] = "none"]_vars
    /\ [](DepsReturned => \A t \in DepNames : t \in dDeps <=> outcome[t] # "none")

\* A call for a version with fewer entries than there are packages returned
\* after each entry's call was made.
C32_Witness ==
    /\ DepsReturned
    /\ dDeps = {1, 2}
    /\ outcome[1] = "ok"
    /\ outcome[2] = "err"
    /\ \A t \in DepNames \ dDeps : tpc[t] = "none" /\ outcome[t] = "none"

\* The results in the order in which their tasks delivered them: those already
\* collected, then those still in the channel.
Delivered == results \o resultsChan.buf

\* C33: the list DownloadDependencies returns is in the order in which the
\* tasks delivered their results: each delivery adds the task's result after
\* all the results delivered before it, nothing else changes the order, and
\* the list returned is that sequence.
C33_CompletionOrder ==
    [][/\ \/ Delivered' = Delivered
          \/ \E t \in dDeps :
                /\ tpc[t] = "downloading"
                /\ tpc'[t] = "delivered"
                /\ Delivered' = Append(Delivered, t)
       /\ (mpc = "collectResults" /\ mpc' = "returned")
             => dRet'.results = Delivered]_vars

\* Three dependencies, of which the third delivered first and the first last:
\* the list is in that order, not in the order of the names.
C33_Witness ==
    /\ DepsReturned
    /\ dDeps = {1, 2, 3}
    /\ dRet.results = <<3, 2, 1>>


\* ---- DownloadDependencies when every goroutine that can run does run

\* The steps of the calling goroutine, of the goroutine of one dependency and
\* of the goroutine that waits and closes.
CallerStep ==
    \/ DepMetadata
    \/ \E t \in DepNames : Spawn(t)
    \/ StartCloser
    \/ RecvError
    \/ ErrorsDrained
    \/ RecvResult
    \/ DepReturn

TaskStep(t) == Acquire(t) \/ Deliver(t) \/ Release(t) \/ Done(t)

CloserStep == CloserWait \/ CloserClose

\* The Go scheduler runs every goroutine that is not blocked, and every
\* DownloadPackage call is taken to return (Deliver is its return): a step of
\* a goroutine that stays possible is taken.
FairDependencies ==
    /\ WF_vars(CallerStep)
    /\ \A t \in DepNames : WF_vars(TaskStep(t))
    /\ WF_vars(CloserStep)

\* The most dependencies in the calls whose every behaviour is followed to
\* its end.
MaxFairDeps == 3

\* The calls of InitDependencies with at most MaxFairDeps dependencies and the
\* limits from none given to one below that number.
InitDependenciesFair ==
    /\ InitDependencies
    /\ Cardinality(dDeps) <= MaxFairDeps
    /\ dConcurrency < MaxFairDeps

SpecDependenciesFair ==
    InitDependenciesFair /\ [][NextDependencies]_vars /\ FairDependencies

\* C39: DownloadDependencies always returns, and when it returns after having
\* started its tasks each of them has obtained a slot, made its call,
\* delivered the outcome and ended, and every slot is free: no task is left
\* blocked on the gate or on a channel, and the caller is not left waiting.
C39_AlwaysReturns ==
    /\ <>dRet.returned
    /\ [](dRet.returned => sem = 0)
    /\ [](DepsReturned => \A t \in dDeps : tpc[t] = "done" /\ outcome[t] # "none")

\* More dependencies than slots, some downloads failed and some succeeded,
\* and the call has returned with every slot free.
C39_Witness ==
    /\ DepsReturned
    /\ Cardinality(dDeps) > GateSize(dConcurrency)
    /\ \E t \in dDeps : outcome[t] = "ok"
    /\ \E t \in dDeps : outcome[t] = "err"
    /\ sem = 0
    /\ \A t \in dDeps : tpc[t] = "done"


\* ---- Further claims about DownloadPackage, under Spec and SpecConcurrent

\* The positions of a call at which it consults the cache or writes to it.
AtCacheOrTransfer == {"stat", "read", "compare", "create", "request", "copy"}

\* C36: every DownloadPackage call makes a registry metadata fetch before it
\* consults the cache (a call is at the cache, or past it, only with a fetch
\* made and the version's metadata in hand, and every returned call, a hit
\* included, has made one); when the fetch fails the call fails from where it
\* stands, before the cache check: no file is read, created, changed or
\* removed, and no path is returned, whatever the cache holds.
C36_MetadataBeforeCache ==
    /\ [](\A q \in Callers :
             pc[q] \in AtCacheOrTransfer
                 => loc[q].fetches >= 1 /\ loc[q].info # NoInfo)
    /\ [](\A i \in 1..Len(hist) :
             /\ hist[i].fetches >= 1
             /\ hist[i].err = "metadata"
                   => /\ ~hist[i].hit
                      /\ hist[i].path = <<>>
                      /\ hist[i].transfers = 0
                      /\ hist[i].post = hist[i].pre
             /\ hist[i].resolved = NoInfo.version => hist[i].err = "metadata")
    /\ [][\A q \in Callers :
            (pc[q] = "resolve" /\ pc'[q] = "idle")
                => /\ hist'[Len(hist')].err = "metadata"
                   /\ fs' = fs
                   /\ inode' = inode]_vars

\* A call with useCache set, made while a valid archive was stored, failed
\* because the registry could not be asked; the archive is as it was.
C36_Witness ==
    \E i \in 1..Len(hist) :
        /\ hist[i].useCache
        /\ Valid(hist[i].pre, Advertised)
        /\ hist[i].err = "metadata"
        /\ hist[i].fetches >= 1
        /\ hist[i].post = hist[i].pre

\* What the verify command does: one DownloadPackage call with
\* DownloadOptions{UseCache: true}, reporting success when it returns no
\* error.
VerifyRun(r) == r.useCache

\* C35: the verify command only inspects the cache: when nothing is stored
\* for the package it makes no archive transfer and leaves no cache entry,
\* and it reports success only for an archive that was stored already and
\* has the advertised checksum.
C35_VerifyOnlyInspects ==
    \A i \in 1..Len(hist) :
        VerifyRun(hist[i]) =>
            /\ ~hist[i].pre.exists
                  => hist[i].transfers = 0 /\ ~hist[i].post.exists
            /\ hist[i].err = "nil"
                  => hist[i].hit /\ Valid(hist[i].pre, hist[i].expected)

\* C38: if a valid archive is stored for the name and version when a
\* DownloadPackage call for them begins and the call fails, the archive is
\* still there, unchanged, when the call returns.
C38_ValidArchiveSurvivesFailure ==
    \A i \in 1..Len(hist) :
        (Valid(hist[i].pre, Advertised) /\ hist[i].err # "nil")
            => hist[i].post = hist[i].pre

\* C37: with no writer to the cache but DownloadPackage and a registry whose
\* checksum for the version is always the same, no call with useCache set
\* fails with a mismatch of the cached file's checksum, whatever calls,
\* successful or failed, one after another or overlapping, came before.
C37_NoCachedMismatchWithoutTampering ==
    \A i \in 1..Len(hist) :
        hist[i].useCache => hist[i].err # "cache_checksum_mismatch"


(***************************************************************************)
(* downloadFile with a progress bar: dm.progressBar, ProgressReader and    *)
(* the refresher goroutine                                                 *)
(***************************************************************************)

\* Transfers that run on the one DownloadManager at a time.
NumTransfers == 2

\* Chunks (of one byte here) in the body of an archive.
BodyChunks == 2

Transfers == 1..NumTransfers

\* The bar transfer t creates is bar t.
NoBar == [created |-> FALSE, current |-> 0, active |-> FALSE,
          refresher |-> "none", shown |-> 0]

\* NewProgressBar(total): current is 0, active is true, and the refresher
\* goroutine is started.
NewProgressBar == [created |-> TRUE, current |-> 0, active |-> TRUE,
                   refresher |-> "running", shown |-> 0]

\* Each transfer has received its 200 response and is about to set its
\* reader up.
InitBars ==
    /\ DownloadUnused
    /\ ResolveUnused
    /\ DependenciesUnused
    /\ FetchUnused
    /\ LookupUnused
    /\ ProgressUnused
    /\ ManifestUnused
    /\ showProgress \in BOOLEAN
    /\ progressBar = 0
    /\ pbar = [t \in Transfers |-> NoBar]
    /\ xpc = [t \in Transfers |-> "response"]
    /\ xReader = [t \in Transfers |-> 0]
    /\ xLeft = [t \in Transfers |-> BodyChunks]
    /\ xWritten = [t \in Transfers |-> 0]

\* if showProgress { dm.mu.Lock(); dm.progressBar = NewProgressBar(...);
\* dm.mu.Unlock() ...: the new bar is stored in the manager's one field.
\* Without showProgress the reader is the body itself.
SetUpBar(t) ==
    /\ xpc[t] = "response"
    /\ IF showProgress
       THEN /\ progressBar' = t
            /\ pbar' = [pbar EXCEPT ![t] = NewProgressBar]
            /\ xpc' = [xpc EXCEPT ![t] = "wrap"]
       ELSE /\ xpc' = [xpc EXCEPT ![t] = "copy"]
            /\ UNCHANGED <<progressBar, pbar>>
    /\ UNCHANGED <<showProgress, xReader, xLeft, xWritten, resVars, dlVars,
                   depVars, fetchVars, lookupVars, progVars, manVars>>

\* reader = dm.progressBar.NewProxyReader(resp.Body): the field is read
\* again, after the Unlock and without the lock; the reader holds whatever
\* bar is stored there at that moment.
NewProxyReader(t) ==
    /\ xpc[t] = "wrap"
    /\ xReader' = [xReader EXCEPT ![t] = progressBar]
    /\ xpc' = [xpc EXCEPT ![t] = "copy"]
    /\ UNCHANGED <<showProgress, progressBar, pbar, xLeft, xWritten, resVars,
                   dlVars, depVars, fetchVars, lookupVars, progVars, manVars>>

\* p.render(): the display shows the bar's counter.
Render(b) == [b EXCEPT !.shown = b.current]

\* p.Finish(): active = false, then render.
Finish(b) == Render([b EXCEPT !.active = FALSE])

\* io.Copy, one Read that returns n > 0 bytes: ProgressReader.Read adds n
\* to the bar the reader holds.
ReadChunk(t) ==
    /\ xpc[t] = "copy"
    /\ xLeft[t] > 0
    /\ xLeft' = [xLeft EXCEPT ![t] = @ - 1]
    /\ xWritten' = [xWritten EXCEPT ![t] = @ + 1]
    /\ pbar' = IF xReader[t] = 0 THEN pbar
               ELSE [pbar EXCEPT ![xReader[t]].current = @ + 1]
    /\ UNCHANGED <<showProgress, progressBar, xpc, xReader, resVars, dlVars,
                   depVars, fetchVars, lookupVars, progVars, manVars>>

\* io.Copy, the Read that returns io.EOF: ProgressReader.Read calls Finish on
\* the bar the reader holds, and io.Copy returns nil.
ReadEOF(t) ==
    /\ xpc[t] = "copy"
    /\ xLeft[t] = 0
    /\ pbar' = IF xReader[t] = 0 THEN pbar
               ELSE [pbar EXCEPT ![xReader[t]] = Finish(@)]
    /\ xpc' = [xpc EXCEPT ![t] = "copied"]
    /\ UNCHANGED <<showProgress, progressBar, xReader, xLeft, xWritten,
                   resVars, dlVars, depVars, fetchVars, lookupVars, progVars,
                   manVars>>

\* io.Copy, a Read (or the write to the file) that returns another error
\* than io.EOF: Finish is not called; downloadFile removes the file and
\* returns "download interrupted".
ReadError(t) ==
    /\ xpc[t] = "copy"
    /\ xLeft[t] > 0
    /\ xpc' = [xpc EXCEPT ![t] = "interrupted"]
    /\ UNCHANGED <<showProgress, progressBar, pbar, xReader, xLeft, xWritten,
                   resVars, dlVars, depVars, fetchVars, lookupVars, progVars,
                   manVars>>

\* refresher, one tick: return when the bar is not active, else render.  The
\* read of p.active is not synchronised with Finish's write, so a tick may
\* still see the bar active after Finish.
Tick(t) ==
    /\ pbar[t].refresher = "running"
    /\ \/ /\ ~pbar[t].active
          /\ pbar' = [pbar EXCEPT ![t].refresher = "stopped"]
       \/ pbar' = [pbar EXCEPT ![t] = Render(@)]
    /\ UNCHANGED <<showProgress, progressBar, xpc, xReader, xLeft, xWritten,
                   resVars, dlVars, depVars, fetchVars, lookupVars, progVars,
                   manVars>>

TransferStep(t) ==
    \/ SetUpBar(t)
    \/ NewProxyReader(t)
    \/ ReadChunk(t)
    \/ ReadEOF(t)
    \/ ReadError(t)

NextBars ==
    \/ \E t \in Transfers : TransferStep(t)
    \/ \E t \in Transfers : Tick(t)

SpecBars == InitBars /\ [][NextBars]_vars

\* The transfer's downloadFile has left io.Copy: the transfer has ended.
Ended(t) == xpc[t] \in {"copied", "interrupted"}

\* Every goroutine that can run does run; a refresher whose bar was finished
\* sees it at some tick.
Stops(t) ==
    /\ pbar[t].refresher = "running"
    /\ ~pbar[t].active
    /\ pbar' = [pbar EXCEPT ![t].refresher = "stopped"]
    /\ UNCHANGED <<showProgress, progressBar, xpc, xReader, xLeft, xWritten,
                   resVars, dlVars, depVars, fetchVars, lookupVars, progVars,
                   manVars>>

FairBars ==
    /\ \A t \in Transfers : WF_vars(TransferStep(t))
    /\ \A t \in Transfers : WF_vars(Stops(t))

SpecBarsFair == InitBars /\ [][NextBars]_vars /\ FairBars


\* ---- Claims about the progress bars of concurrent transfers

\* C34: with showProgress set and transfers running at the same time on one
\* DownloadManager, the bytes of each transfer are counted on the bar created
\* for that transfer and on no other: every bar's counter is the number of
\* bytes its own transfer has read.
C34_BytesOnOwnBar ==
    \A t \in Transfers :
        pbar[t].created => pbar[t].current = xWritten[t]

\* C40: every bar created for a transfer is finished and its refresher has
\* stopped at some moment after the transfer has ended, whether the copy
\* reached the end of the body or failed, and whatever other transfers ran.
C40_BarsFinishAndStop ==
    \A t \in Transfers :
        (pbar[t].created /\ Ended(t))
            ~> (~pbar[t].active /\ pbar[t].refresher = "stopped")

====
